---- MODULE Spec2Model ----
(***************************************************************************)
(* Model of the inventory anomaly detector: the anomaly engine             *)
(* (src/src/anomalies.py), its model persistence, and the daily            *)
(* aggregator (src/src/data_aggregator.py).                                *)
(***************************************************************************)
EXTENDS Integers, Sequences, FiniteSets, TLC

(***************************************************************************)
(* Bounds                                                                  *)
(***************************************************************************)
\* largest number of rows of a table handed to the anomaly engine
MaxRows == 2

\* largest number of raw rows handed to the aggregator
MaxRaw == 2

\* the raw rows fall on the calendar days 1..MaxDay
MaxDay == 3

\* the raw rows belong to the products 1..NumProducts
NumProducts == 2

\* largest number of rows of a series handed to the cleaner
MaxSeries == 4

\* largest number of rows of a table handed to the feature builders
MaxFeat == 3

(***************************************************************************)
(* Values                                                                  *)
(***************************************************************************)
\* numpy's missing value; every real cell value is >= 0 in the model
NaN == -1

\* the two columns the engine is used with (consumo_column, estoque_column)
AllCols == {"consumo", "estoque"}

\* non-missing cell values of a feature column
CellVals == {0, 1}

Cells == CellVals \cup {NaN}

\* raw value score_samples returns for a vector the forest isolates quickly
\* and for any other vector (tenths; the library's values are always < 0)
IsolatedScore == -7

NormalScore == -5

\* the fitted threshold offset_ (tenths): predict flags score - offset_ < 0
Offset == -6

\* feature_columns arguments: non-empty lists of distinct column names
FeatureLists ==
    {<<c>> : c \in AllCols} \cup
    {<<c, d>> : <<c, d>> \in {p \in AllCols \X AllCols : p[1] # p[2]}}

\* feature vectors of n non-missing cells
Tuples(n) == [1..n -> CellVals]

\* the absence of a model / of a table
NoModel == [nfeat |-> 0]

NoTable == <<>>

VARIABLES
    df,      \* the caller's table: [cols : set of names, rows : Seq(row)]
    model,   \* the fitted model the caller holds, or NoModel
    res,     \* outcome of the last call
    files,   \* the model directory: file name -> stored blob, or Absent
    raw,     \* the raw table handed to the aggregator
    agg,     \* outcome of the last aggregation
    series,  \* the series handed to the cleaner
    clean,   \* outcome of the cleaning
    tab,     \* the table handed to the feature builders
    feat,    \* outcome of the feature building
    vdf,     \* the table handed to validation
    val,     \* outcome of the validation
    scored,  \* the scored rows handed to the alerts and the dashboard
    alert,   \* outcome of the alert call or of the dashboard
    flow     \* the run of the pipeline flow: its options, stages, outcomes

vars ==
    <<df, model, res, files, raw, agg, series, clean, tab, feat, vdf, val,
      scored, alert, flow>>

(***************************************************************************)
(* Helpers on tables                                                       *)
(***************************************************************************)
\* variant: the operation works on the caller's table itself
InputAfterInPlace(d, w) == w

\* the caller's table d after a call that did its work on w, which started
\* as d.copy(): what the operation writes into w does not reach d
InputAfter(d, w) == d

Range(s) == {s[i] : i \in DOMAIN s}

\* [col for col in feature_columns if col not in df.columns]
MissingCols(d, fc) == SelectSeq(fc, LAMBDA c : c \notin d.cols)

\* X = df[feature_columns].values : one feature vector per row
FeatureMatrix(d, fc) ==
    [i \in 1..Len(d.rows) |-> [j \in 1..Len(fc) |-> d.rows[i][fc[j]]]]

\* mask_valid = ~np.isnan(X).any(axis=1)
MaskValid(X) == [i \in 1..Len(X) |-> \A j \in DOMAIN X[i] : X[i][j] # NaN]

\* X_clean = X[mask_valid]
RECURSIVE Compress(_, _)
Compress(X, mask) ==
    IF X = <<>> THEN <<>>
    ELSE LET rest == Compress(Tail(X), Tail(mask))
         IN  IF Head(mask) THEN <<Head(X)>> \o rest ELSE rest

\* position of row i among the valid rows (index into X_clean)
RECURSIVE Rank(_, _)
Rank(mask, i) ==
    IF i = 0 THEN 0 ELSE Rank(mask, i - 1) + (IF mask[i] THEN 1 ELSE 0)

(***************************************************************************)
(* The outlier model (sklearn IsolationForest as used by the engine)       *)
(***************************************************************************)
\* iso_forest.fit(X_clean): the fitted estimator.  cols records the
\* feature_columns list the caller trained with; the estimator itself is
\* fitted on a bare array and keeps only the number of features.
\* A fit is randomised: which vector (if any) the trees isolate quickly is
\* the library's choice, iso; the fitted score table follows from it.
Fit(Xc, fc, iso) ==
    [nfeat |-> Len(fc), cols |-> fc, fit |-> Xc,
     tab |-> [x \in Tuples(Len(fc)) |->
                 IF <<x>> = iso THEN IsolatedScore ELSE NormalScore],
     offset |-> Offset]

\* the choices a fit on n features can make
IsoChoices(n) == {<<>>} \cup {<<x>> : x \in Tuples(n)}

\* model.score_samples(X_clean)
ScoreSamples(m, Xc) == [k \in 1..Len(Xc) |-> m.tab[Xc[k]]]

\* model.predict(X_clean): -1 where decision_function < 0, else 1
Predict(m, Xc) ==
    [k \in 1..Len(Xc) |-> IF m.tab[Xc[k]] - m.offset < 0 THEN -1 ELSE 1]

\* the estimator rejects an array whose width differs from the fitted one
AcceptsWidth(m, fc) == m.nfeat = Len(fc)

(***************************************************************************)
(* train_isolation_forest                                                  *)
(***************************************************************************)
\* variant: the NaN rows are not removed before the fit
TrainRowsUnmasked(d, fc) == FeatureMatrix(d, fc)

\* the rows handed to fit: X[mask_valid]
TrainRows(d, fc) ==
    LET X == FeatureMatrix(d, fc) IN Compress(X, MaskValid(X))

TrainOutcome(d, fc, iso) ==
    IF MissingCols(d, fc) # <<>>
    THEN [status |-> "ValueError", model |-> NoModel, calls |-> <<>>]
    ELSE IF Len(TrainRows(d, fc)) = 0
    THEN [status |-> "ValueError", model |-> NoModel, calls |-> <<>>]
    ELSE [status |-> "ok", model |-> Fit(TrainRows(d, fc), fc, iso),
          calls |-> <<"fit">>]

(***************************************************************************)
(* detect_anomalies                                                        *)
(***************************************************************************)

\* variant: the raw score_samples value is stored, without the change of
\* sign
ScoreTableRawScore(m, d, fc) ==
    LET X    == FeatureMatrix(d, fc)
        mask == MaskValid(X)
        Xc   == Compress(X, mask)
        predictions    == Predict(m, Xc)
        anomaly_scores == ScoreSamples(m, Xc)
    IN  [i \in 1..Len(d.rows) |->
            IF mask[i]
            THEN [row |-> d.rows[i],
                  anomaly_score |-> anomaly_scores[Rank(mask, i)],
                  is_anomaly |-> (predictions[Rank(mask, i)] = -1)]
            ELSE [row |-> d.rows[i], anomaly_score |-> NaN,
                  is_anomaly |-> FALSE]]

\* variant: the flag is taken from the inlier label (predictions == 1)
ScoreTableInlierFlag(m, d, fc) ==
    LET X    == FeatureMatrix(d, fc)
        mask == MaskValid(X)
        Xc   == Compress(X, mask)
        predictions    == Predict(m, Xc)
        anomaly_scores == [k \in 1..Len(Xc) |-> 0 - ScoreSamples(m, Xc)[k]]
    IN  [i \in 1..Len(d.rows) |->
            IF mask[i]
            THEN [row |-> d.rows[i],
                  anomaly_score |-> anomaly_scores[Rank(mask, i)],
                  is_anomaly |-> (predictions[Rank(mask, i)] = 1)]
            ELSE [row |-> d.rows[i], anomaly_score |-> NaN,
                  is_anomaly |-> FALSE]]

\* df_result with anomaly_score / is_anomaly filled for the valid rows
ScoreTable(m, d, fc) ==
    LET X    == FeatureMatrix(d, fc)
        mask == MaskValid(X)
        Xc   == Compress(X, mask)
        predictions    == Predict(m, Xc)
        anomaly_scores == [k \in 1..Len(Xc) |-> 0 - ScoreSamples(m, Xc)[k]]
    IN  [i \in 1..Len(d.rows) |->
            IF mask[i]
            THEN [row |-> d.rows[i],
                  anomaly_score |-> anomaly_scores[Rank(mask, i)],
                  is_anomaly |-> (predictions[Rank(mask, i)] = -1)]
            ELSE [row |-> d.rows[i], anomaly_score |-> NaN,
                  is_anomaly |-> FALSE]]

\* the rows handed to predict / score_samples: X[mask_valid]
CleanRows(d, fc) ==
    LET X == FeatureMatrix(d, fc) IN Compress(X, MaskValid(X))

\* variant: the check for zero valid rows is left out
ScoreOutcomeNoEmptyCheck(m, d, fc) ==
    IF MissingCols(d, fc) # <<>>
    THEN [status |-> "ValueError", table |-> NoTable, calls |-> <<>>]
    ELSE IF ~AcceptsWidth(m, fc)
    THEN [status |-> "ValueError", table |-> NoTable, calls |-> <<"predict">>]
    ELSE [status |-> "ok", table |-> ScoreTable(m, d, fc),
          calls |-> <<"predict", "score_samples">>]

ScoreOutcome(m, d, fc) ==
    IF MissingCols(d, fc) # <<>>
    THEN [status |-> "ValueError", table |-> NoTable, calls |-> <<>>]
    ELSE IF Len(CleanRows(d, fc)) = 0
    THEN [status |-> "ValueError", table |-> NoTable, calls |-> <<>>]
    ELSE IF ~AcceptsWidth(m, fc)
    THEN [status |-> "ValueError", table |-> NoTable, calls |-> <<"predict">>]
    ELSE [status |-> "ok", table |-> ScoreTable(m, d, fc),
          calls |-> <<"predict", "score_samples">>]

(***************************************************************************)
(* detect_anomalies_consumo_estoque                                        *)
(***************************************************************************)
\* [col for col in [consumo_column, estoque_column] if col in df.columns]
FeatureCols(d, cc, ec) == SelectSeq(<<cc, ec>>, LAMBDA c : c \in d.cols)

\* variant: a model the caller already holds is used instead of a new fit
DetectOutcomeReuse(d, cc, ec, train_model, iso) ==
    LET fcs == FeatureCols(d, cc, ec)
        t   == IF model # NoModel
               THEN [status |-> "ok", model |-> model, calls |-> <<>>]
               ELSE TrainOutcome(d, fcs, iso)
        s   == ScoreOutcome(t.model, d, fcs)
    IN  IF Len(fcs) = 0
        THEN [status |-> "ValueError", model |-> NoModel, table |-> NoTable,
              fc |-> fcs, calls |-> <<>>]
        ELSE IF t.status # "ok"
        THEN [status |-> t.status, model |-> NoModel, table |-> NoTable,
              fc |-> fcs, calls |-> t.calls]
        ELSE IF s.status # "ok"
        THEN [status |-> s.status, model |-> NoModel, table |-> NoTable,
              fc |-> fcs, calls |-> t.calls \o s.calls]
        ELSE [status |-> "ok", model |-> t.model, table |-> s.table,
              fc |-> fcs, calls |-> t.calls \o s.calls]

\* the parameter train_model is accepted and never read: a model is always
\* trained
DetectOutcome(d, cc, ec, train_model, iso) ==
    LET fcs == FeatureCols(d, cc, ec)
        t   == TrainOutcome(d, fcs, iso)
        s   == ScoreOutcome(t.model, d, fcs)
    IN  IF Len(fcs) = 0
        THEN [status |-> "ValueError", model |-> NoModel, table |-> NoTable,
              fc |-> fcs, calls |-> <<>>]
        ELSE IF t.status # "ok"
        THEN [status |-> t.status, model |-> NoModel, table |-> NoTable,
              fc |-> fcs, calls |-> t.calls]
        ELSE IF s.status # "ok"
        THEN [status |-> s.status, model |-> NoModel, table |-> NoTable,
              fc |-> fcs, calls |-> t.calls \o s.calls]
        ELSE [status |-> "ok", model |-> t.model, table |-> s.table,
              fc |-> fcs, calls |-> t.calls \o s.calls]

(***************************************************************************)
(* Model persistence: save_anomaly_model / load_anomaly_model              *)
(***************************************************************************)
\* A file name is the sequence of its dot-separated components:
\* <<"m", "pkl", "gz">> is m.pkl.gz.  All files live in one directory.

\* Path.suffix: the last component, empty when the name has no dot
Suffix(p) == IF Len(p) > 1 THEN p[Len(p)] ELSE ""

\* Path.stem, which is also Path.with_suffix("")
Stem(p) == IF Len(p) > 1 THEN SubSeq(p, 1, Len(p) - 1) ELSE p

\* Path.with_suffix(sfx)
WithSuffix(p, sfx) == Stem(p) \o sfx

\* the file save_anomaly_model writes for file_path p
SaveTarget(p, compress) ==
    LET stem == IF Suffix(p) = "gz" THEN Stem(Stem(p)) ELSE Stem(p)
    IN  IF compress THEN stem \o <<"pkl", "gz">> ELSE stem \o <<"pkl">>

\* joblib.dump(model, f, compress=...) and joblib.load(f): the blob records
\* how it was compressed; load detects that from the blob itself
Dump(m, compress) == [gz |-> compress, obj |-> m]

Undump(blob) == blob.obj

Absent == [gz |-> FALSE]

Exists(fs, p) == p \in DOMAIN fs /\ fs[p] # Absent

\* variant: only the literal path is looked at
LoadTargetLiteral(fs, p) == p

\* the file load_anomaly_model reads for file_path p
LoadTarget(fs, p) ==
    IF ~Exists(fs, p) /\ Suffix(p) = "pkl"
    THEN WithSuffix(p, <<"pkl", "gz">>)
    ELSE p

\* file_path arguments: no extension, .pkl, .pkl.gz, another extension
Paths ==
    {<<"m">>, <<"m", "pkl">>, <<"m", "pkl", "gz">>, <<"m", "joblib">>}

FileNames ==
    Paths \cup {SaveTarget(p, c) : p \in Paths, c \in BOOLEAN}

NoFiles == [n \in FileNames |-> Absent]

\* no raw table / no aggregation yet
NoRaw == [cols |-> {}, rows |-> <<>>]

NoAgg ==
    [status |-> "none", aggregations |-> <<>>, fill |-> FALSE, cols |-> <<>>,
     rows |-> <<>>]

(***************************************************************************)
(* Daily aggregation: aggregate_daily_by_item                              *)
(***************************************************************************)
\* A timestamp is day * TicksPerDay + time of day.
TicksPerDay == 2

\* Series.dt.normalize(): midnight of the same day
Normalize(ts) == ts - (ts % TicksPerDay)

RECURSIVE Fact(_)
Fact(n) == IF n <= 1 THEN 1 ELSE n * Fact(n - 1)

\* mean, sum, min, max are held in units of 1/Scale, so that every mean of
\* at most MaxRaw integers is an integer
Scale == Fact(MaxRaw)

RECURSIVE SumSeq(_)
SumSeq(xs) == IF xs = <<>> THEN 0 ELSE Head(xs) + SumSeq(Tail(xs))

SetMin(S) == CHOOSE x \in S : \A y \in S : x <= y

SetMax(S) == CHOOSE x \in S : \A y \in S : x >= y

\* one groupby statistic over the values of a group; missing values are
\* skipped.  std is the sample deviation (ddof = 1), held as its square.
Stat(func, values) ==
    LET xs == SelectSeq(values, LAMBDA v : v # NaN)
        n  == Len(xs)
        sq == [k \in 1..n |-> xs[k] * xs[k]]
    IN  CASE func = "mean"  -> IF n = 0 THEN NaN ELSE (SumSeq(xs) * Scale) \div n
          [] func = "sum"   -> SumSeq(xs) * Scale
          [] func = "min"   -> IF n = 0 THEN NaN ELSE SetMin(Range(xs)) * Scale
          [] func = "max"   -> IF n = 0 THEN NaN ELSE SetMax(Range(xs)) * Scale
          [] func = "std"   -> IF n < 2 THEN NaN
                               ELSE ((n * SumSeq(sq) - SumSeq(xs) * SumSeq(xs))
                                     * Scale) \div (n * (n - 1))
          [] func = "count" -> n

SupportedFuncs == {"mean", "sum", "min", "max", "std", "count"}

\* the aggregations used when none are given
DefaultAggregations ==
    << [col |-> "consumo", funcs |-> <<"mean", "sum", "min", "max", "std">>],
       [col |-> "estoque", funcs |-> <<"mean", "min", "max", "std">>] >>

\* agg_functions: the (column, function) pairs the spec resolves to
RECURSIVE AggFunctions(_, _)
AggFunctions(cols, aggregations) ==
    IF aggregations = <<>> THEN <<>>
    ELSE LET a    == Head(aggregations)
             fl   == SelectSeq(a.funcs, LAMBDA f : f \in SupportedFuncs)
             rest == AggFunctions(cols, Tail(aggregations))
         IN  IF a.col \in cols
             THEN [k \in 1..Len(fl) |-> <<a.col, fl[k]>>] \o rest
             ELSE rest

\* lexicographic order on (produto_id, data)
KeyLess(a, b) == a[1] < b[1] \/ (a[1] = b[1] /\ a[2] < b[2])

RECURSIVE SortKeys(_)
SortKeys(S) ==
    IF S = {} THEN <<>>
    ELSE LET k == CHOOSE a \in S : \A b \in S \ {a} : KeyLess(a, b)
         IN  <<k>> \o SortKeys(S \ {k})

\* variant: the time of day is not removed from the date
GroupKeyWithTime(r) == <<r["produto_id"], r["data"]>>

\* the (produto_id, data) key of a raw row after the date is normalised
GroupKey(r) == <<r["produto_id"], Normalize(r["data"])>>

\* variant: the statistics of a group are taken over every row of its
\* product, whatever the day
GroupAggByProduct(rows, pairs) ==
    LET keys == SortKeys({GroupKey(rows[i]) : i \in 1..Len(rows)})
    IN  [g \in 1..Len(keys) |->
            LET members == SelectSeq(rows, LAMBDA r :
                               r["produto_id"] = keys[g][1])
            IN  [produto_id |-> keys[g][1], data |-> keys[g][2],
                 stats |-> [pr \in Range(pairs) |->
                     Stat(pr[2], [k \in 1..Len(members) |->
                                      members[k][pr[1]]])]]]

\* groupby([produto_id, data]).agg(...).reset_index(): one row per group,
\* groups in key order
GroupAgg(rows, pairs) ==
    LET keys == SortKeys({GroupKey(rows[i]) : i \in 1..Len(rows)})
    IN  [g \in 1..Len(keys) |->
            LET members == SelectSeq(rows, LAMBDA r : GroupKey(r) = keys[g])
            IN  [produto_id |-> keys[g][1], data |-> keys[g][2],
                 stats |-> [pr \in Range(pairs) |->
                     Stat(pr[2], [k \in 1..Len(members) |->
                                      members[k][pr[1]]])]]]

\* variant: every group is counted once, whatever its number of rows
GroupSizeOnes(rows) ==
    LET keys == SortKeys({GroupKey(rows[i]) : i \in 1..Len(rows)})
    IN  [g \in 1..Len(keys) |->
            [produto_id |-> keys[g][1], data |-> keys[g][2],
             stats |-> [pr \in {<<"count", "">>} |-> 1]]]

\* groupby(...).size().reset_index(name="count")
GroupSize(rows) ==
    LET keys == SortKeys({GroupKey(rows[i]) : i \in 1..Len(rows)})
    IN  [g \in 1..Len(keys) |->
            [produto_id |-> keys[g][1], data |-> keys[g][2],
             stats |-> [pr \in {<<"count", "">>} |->
                 Len(SelectSeq(rows, LAMBDA r : GroupKey(r) = keys[g]))]]]

\* Series.unique(): the distinct values in order of first appearance
RECURSIVE Unique(_)
Unique(xs) ==
    IF xs = <<>> THEN <<>>
    ELSE LET init == Unique(SubSeq(xs, 1, Len(xs) - 1))
             last == xs[Len(xs)]
         IN  IF last \in Range(init) THEN init ELSE Append(init, last)

\* pd.date_range(start, end, freq="D")
DateRange(start, end) ==
    [k \in 1..((end - start) \div TicksPerDay + 1) |->
        start + (k - 1) * TicksPerDay]

RECURSIVE Flatten(_)
Flatten(ss) == IF ss = <<>> THEN <<>> ELSE Head(ss) \o Flatten(Tail(ss))

\* variant: reindex on groups x the dates that occur, not the full range
FillObservedDates(rows) ==
    LET dates      == {rows[i].data : i \in 1..Len(rows)}
        date_range == [k \in 1..Cardinality(dates) |->
                          CHOOSE d \in dates :
                              Cardinality({e \in dates : e < d}) = k - 1]
        groups     == Unique([i \in 1..Len(rows) |-> rows[i].produto_id])
        statcols   == DOMAIN rows[1].stats
        Cell(g, d) ==
            IF \E i \in 1..Len(rows) :
                   rows[i].produto_id = g /\ rows[i].data = d
            THEN CHOOSE r \in Range(rows) : r.produto_id = g /\ r.data = d
            ELSE [produto_id |-> g, data |-> d,
                  stats |-> [pr \in statcols |-> NaN]]
    IN  Flatten([gi \in 1..Len(groups) |->
                    [di \in 1..Len(date_range) |->
                        Cell(groups[gi], date_range[di])]])

\* _fill_missing_dates: reindex on groups x date_range
FillMissingDates(rows) ==
    LET dates      == {rows[i].data : i \in 1..Len(rows)}
        date_range == DateRange(SetMin(dates), SetMax(dates))
        groups     == Unique([i \in 1..Len(rows) |-> rows[i].produto_id])
        statcols   == DOMAIN rows[1].stats
        Cell(g, d) ==
            IF \E i \in 1..Len(rows) :
                   rows[i].produto_id = g /\ rows[i].data = d
            THEN CHOOSE r \in Range(rows) : r.produto_id = g /\ r.data = d
            ELSE [produto_id |-> g, data |-> d,
                  stats |-> [pr \in statcols |-> NaN]]
    IN  Flatten([gi \in 1..Len(groups) |->
                    [di \in 1..Len(date_range) |->
                        Cell(groups[gi], date_range[di])]])

\* sort_values([produto_id, data]): insertion of each row before the first
\* row with a larger key
RECURSIVE SortValues(_)
SortValues(rows) ==
    IF rows = <<>> THEN <<>>
    ELSE LET sorted == SortValues(SubSeq(rows, 1, Len(rows) - 1))
             r      == rows[Len(rows)]
             before == SelectSeq(sorted, LAMBDA x :
                           ~KeyLess(<<r.produto_id, r.data>>,
                                    <<x.produto_id, x.data>>))
             after  == SelectSeq(sorted, LAMBDA x :
                            KeyLess(<<r.produto_id, r.data>>,
                                    <<x.produto_id, x.data>>))
         IN  before \o <<r>> \o after

AggregateOutcome(t, aggregations, fill) ==
    LET missing == SelectSeq(<<"data", "produto_id">>,
                             LAMBDA c : c \notin t.cols)
        pairs   == AggFunctions(t.cols, aggregations)
        grouped == IF pairs = <<>> THEN GroupSize(t.rows)
                   ELSE GroupAgg(t.rows, pairs)
        filled  == IF fill THEN FillMissingDates(grouped) ELSE grouped
    IN  IF missing # <<>>
        THEN [status |-> "ValueError", aggregations |-> aggregations,
              fill |-> fill, cols |-> <<>>, rows |-> <<>>]
        ELSE [status |-> "ok", aggregations |-> aggregations, fill |-> fill,
              cols |-> IF pairs = <<>> THEN << <<"count", "">> >> ELSE pairs,
              rows |-> SortValues(filled)]

(***************************************************************************)
(* Consumption cleaning: clean_consumo                                     *)
(***************************************************************************)
\* an option that is not given
None == NaN

\* y is held in units of 1/YScale, so that every mean and every linear
\* interpolation over at most MaxSeries values is an integer
YScale == Fact(MaxSeries)

\* the elements of xs in reverse order
Reverse(xs) == [i \in 1..Len(xs) |-> xs[Len(xs) + 1 - i]]

\* the rows in ascending order of ds, given the dates that occur; rows of
\* one ds are in input order when tie = "stable" and in reverse input order
\* when tie = "reversed"
RECURSIVE SortDates(_, _, _)
SortDates(rows, dates, tie) ==
    IF dates = {} THEN <<>>
    ELSE LET d    == SetMin(dates)
             same == SelectSeq(rows, LAMBDA r : r.ds = d)
         IN  (IF tie = "stable" THEN same ELSE Reverse(same))
             \o SortDates(rows, dates \ {d}, tie)

\* sort_values("ds")
SortByDs(rows, tie) ==
    SortDates(rows, {rows[i].ds : i \in 1..Len(rows)}, tie)

\* the values of xs in ascending order
RECURSIVE Ascending(_)
Ascending(xs) ==
    IF xs = <<>> THEN <<>>
    ELSE LET sorted == Ascending(Tail(xs))
             x      == Head(xs)
         IN  SelectSeq(sorted, LAMBDA v : v < x) \o <<x>>
             \o SelectSeq(sorted, LAMBDA v : v >= x)

\* 4 x Series.quantile(k / 4) of the ascending values s, by linear
\* interpolation between the two nearest ranks
Quantile4(s, k) ==
    LET n   == Len(s)
        pos == k * (n - 1)
        lo  == pos \div 4 + 1
        hi  == IF lo < n THEN lo + 1 ELSE lo
    IN  4 * s[lo] + (pos % 4) * (s[hi] - s[lo])

\* _detect_outliers: the mask of the values flagged as outliers; missing
\* values are skipped by the statistics and are never flagged
DetectOutliers(ys, method) ==
    LET xs  == SelectSeq(ys, LAMBDA v : v # NaN)
        n   == Len(xs)
        s   == Ascending(xs)
        q1  == Quantile4(s, 1)
        q3  == Quantile4(s, 3)
        iqr == q3 - q1
        sm  == SumSeq(xs)
        sq  == SumSeq([k \in 1..n |-> xs[k] * xs[k]])
    IN  [i \in 1..Len(ys) |->
            /\ ys[i] # NaN
            /\ n >= 1
            /\ IF method = "iqr"
               THEN \/ 8 * ys[i] < 2 * q1 - 3 * iqr
                    \/ 8 * ys[i] > 2 * q3 + 3 * iqr
               ELSE /\ n >= 2
                    /\ (n * ys[i] - sm) * (n * ys[i] - sm) * (n - 1)
                           > 9 * n * (n * sq - sm * sm)]

\* Series.ffill(): the last value present at or before each position
Ffill(ys) ==
    [i \in 1..Len(ys) |->
        LET P == {p \in 1..i : ys[p] # NaN}
        IN  IF P = {} THEN NaN ELSE ys[SetMax(P)]]

\* Series.bfill(): the first value present at or after each position
Bfill(ys) ==
    [i \in 1..Len(ys) |->
        LET Q == {q \in i..Len(ys) : ys[q] # NaN}
        IN  IF Q = {} THEN NaN ELSE ys[SetMin(Q)]]

\* Series.interpolate(method="linear"): a gap between two values is filled
\* on the straight line between them, a gap after the last value with that
\* value, a gap before the first value is left
Interpolate(ys) ==
    [i \in 1..Len(ys) |->
        LET P == {p \in 1..i : ys[p] # NaN}
            Q == {q \in i..Len(ys) : ys[q] # NaN}
        IN  IF P = {} THEN NaN
            ELSE IF Q = {} THEN ys[SetMax(P)]
            ELSE LET p == SetMax(P)
                     q == SetMin(Q)
                 IN  IF p = q THEN ys[i]
                     ELSE ys[p] + ((ys[q] - ys[p]) * (i - p)) \div (q - p)]

\* Series.fillna(Series.mean())
FillMean(ys) ==
    LET xs == SelectSeq(ys, LAMBDA v : v # NaN)
    IN  [i \in 1..Len(ys) |->
            IF ys[i] # NaN \/ xs = <<>> THEN ys[i]
            ELSE SumSeq(xs) \div Len(xs)]

FillMethods == {"forward_fill", "backward_fill", "interpolate", "mean"}

\* _fill_missing_values, for a supported method
FillMissingValues(ys, method) ==
    CASE method = "forward_fill"  -> Bfill(Ffill(ys))
      [] method = "backward_fill" -> Ffill(Bfill(ys))
      [] method = "interpolate"   -> Bfill(Ffill(Interpolate(ys)))
      [] method = "mean"          -> FillMean(ys)

\* variant: rows with a missing y are kept
DropNaKeepsAll(rows) == SelectSeq(rows, LAMBDA r : TRUE)

\* dropna(subset=["y"])
DropNa(rows) == SelectSeq(rows, LAMBDA r : r.y # NaN)

\* variant: the last row of each date is kept
DropDuplicatesKeepLast(rows) ==
    LET keep == {i \in 1..Len(rows) :
                    \A j \in (i + 1)..Len(rows) : rows[j].ds # rows[i].ds}
    IN  [k \in 1..Cardinality(keep) |->
            rows[CHOOSE i \in keep :
                     Cardinality({j \in keep : j < i}) = k - 1]]

\* drop_duplicates(subset=["ds"], keep="first")
RECURSIVE DropDuplicates(_)
DropDuplicates(rows) ==
    IF rows = <<>> THEN <<>>
    ELSE LET init == DropDuplicates(SubSeq(rows, 1, Len(rows) - 1))
             last == rows[Len(rows)]
         IN  IF \E k \in 1..Len(init) : init[k].ds = last.ds THEN init
             ELSE Append(init, last)

NoSeries == [cols |-> {}, rows |-> <<>>]

NoClean ==
    [status |-> "none", opts |-> <<>>, sorted |-> <<>>, filled |-> <<>>,
     rows |-> <<>>]

\* variant: the outliers are detected on the values as they come in, before
\* the negative values are zeroed and the envelope is applied
CleanOutcomeOutliersFirst(t, o, tie) ==
    LET n      == Len(t.rows)
        input  == [i \in 1..n |->
                      [ds |-> t.rows[i]["ds"],
                       y |-> IF t.rows[i]["y"] = NaN THEN NaN
                             ELSE t.rows[i]["y"] * YScale,
                       idx |-> i]]
        sorted == SortByDs(input \o <<>>, tie)
        y1     == [i \in 1..n |->
                      IF /\ o.remove_negative /\ sorted[i].y # NaN
                         /\ sorted[i].y < 0
                      THEN 0 ELSE sorted[i].y] \o <<>>
        y2a    == [i \in 1..n |->
                      IF /\ o.min_value # None /\ y1[i] # NaN
                         /\ y1[i] < o.min_value * YScale
                      THEN o.min_value * YScale ELSE y1[i]] \o <<>>
        y2     == [i \in 1..n |->
                      IF /\ o.max_value # None /\ y2a[i] # NaN
                         /\ y2a[i] > o.max_value * YScale
                      THEN o.max_value * YScale ELSE y2a[i]] \o <<>>
        mask   == DetectOutliers([i \in 1..n |-> sorted[i].y] \o <<>>,
                                 o.outlier_method) \o <<>>
        y3     == [i \in 1..n |->
                      IF o.remove_outliers /\ mask[i] THEN NaN ELSE y2[i]]
                  \o <<>>
        missing_before == Cardinality({i \in 1..n : y3[i] = NaN})
        fills  == o.fill_missing /\ missing_before > 0
        y4     == IF fills THEN FillMissingValues(y3, o.fill_method) \o <<>>
                  ELSE y3
        kept   == DropNa([i \in 1..n |-> [sorted[i] EXCEPT !.y = y4[i]]])
        failed == [status |-> "ValueError", opts |-> o, sorted |-> <<>>,
                   filled |-> <<>>, rows |-> <<>>]
    IN  IF "y" \notin t.cols \/ "ds" \notin t.cols THEN failed
        ELSE IF o.remove_outliers /\ o.outlier_method \notin {"iqr", "zscore"}
        THEN failed
        ELSE IF fills /\ o.fill_method \notin FillMethods THEN failed
        ELSE [status |-> "ok", opts |-> o,
              sorted |-> [i \in 1..n |-> sorted[i].idx],
              filled |-> y4,
              rows |-> DropDuplicates(kept)]

\* clean_consumo on the table t with the options o.  A row is [ds, y, idx],
\* idx being its position in the input.  tie says how sort_values, which
\* is not a stable sort, orders the rows of one date.  (\o <<>> leaves a
\* sequence as it is.)
CleanOutcome(t, o, tie) ==
    LET n      == Len(t.rows)
        input  == [i \in 1..n |->
                      [ds |-> t.rows[i]["ds"],
                       y |-> IF t.rows[i]["y"] = NaN THEN NaN
                             ELSE t.rows[i]["y"] * YScale,
                       idx |-> i]]
        sorted == SortByDs(input \o <<>>, tie)
        y1     == [i \in 1..n |->
                      IF /\ o.remove_negative /\ sorted[i].y # NaN
                         /\ sorted[i].y < 0
                      THEN 0 ELSE sorted[i].y] \o <<>>
        y2a    == [i \in 1..n |->
                      IF /\ o.min_value # None /\ y1[i] # NaN
                         /\ y1[i] < o.min_value * YScale
                      THEN o.min_value * YScale ELSE y1[i]] \o <<>>
        y2     == [i \in 1..n |->
                      IF /\ o.max_value # None /\ y2a[i] # NaN
                         /\ y2a[i] > o.max_value * YScale
                      THEN o.max_value * YScale ELSE y2a[i]] \o <<>>
        mask   == DetectOutliers(y2, o.outlier_method) \o <<>>
        y3     == [i \in 1..n |->
                      IF o.remove_outliers /\ mask[i] THEN NaN ELSE y2[i]]
                  \o <<>>
        missing_before == Cardinality({i \in 1..n : y3[i] = NaN})
        fills  == o.fill_missing /\ missing_before > 0
        y4     == IF fills THEN FillMissingValues(y3, o.fill_method) \o <<>>
                  ELSE y3
        kept   == DropNa([i \in 1..n |-> [sorted[i] EXCEPT !.y = y4[i]]])
        failed == [status |-> "ValueError", opts |-> o, sorted |-> <<>>,
                   filled |-> <<>>, rows |-> <<>>]
    IN  IF "y" \notin t.cols \/ "ds" \notin t.cols THEN failed
        ELSE IF o.remove_outliers /\ o.outlier_method \notin {"iqr", "zscore"}
        THEN failed
        ELSE IF fills /\ o.fill_method \notin FillMethods THEN failed
        ELSE [status |-> "ok", opts |-> o,
              sorted |-> [i \in 1..n |-> sorted[i].idx],
              filled |-> y4,
              rows |-> DropDuplicates(kept)]

(***************************************************************************)
(* Temporal features: create_lag_features, create_rolling_features         *)
(***************************************************************************)
\* rolling statistics are held in units of 1/FScale, so that every mean of
\* at most MaxFeat integers is an integer
FScale == Fact(MaxFeat)

\* sort_values([group_by, "ds"]), a stable sort on the two keys
SortByGroupDs(rows) ==
    LET n       == Len(rows)
        key(i)  == <<rows[i].g, rows[i].ds>>
        rank(i) == Cardinality({j \in 1..n :
                       \/ KeyLess(key(j), key(i))
                       \/ (key(j) = key(i) /\ j < i)}) + 1
    IN  [p \in 1..n |-> rows[CHOOSE i \in 1..n : rank(i) = p]]

\* the table in the order the feature builders work on; a row is
\* [g, ds, v, idx], idx being its position in the input
SortForFeatures(t, group_by, tie) ==
    LET input == [i \in 1..Len(t) |->
                     [g |-> t[i].g, ds |-> t[i].ds, v |-> t[i].v, idx |-> i]]
                 \o <<>>
    IN  (IF group_by THEN SortByGroupDs(input) ELSE SortByDs(input, tie))
        \o <<>>

\* positions, in order, of the rows that groupby puts in the group of row
\* p; without group_by the table is one group
GroupOf(sorted, p, group_by) ==
    SelectSeq([q \in 1..Len(sorted) |-> q],
              LAMBDA q : ~group_by \/ sorted[q].g = sorted[p].g)

\* variant: the shift runs over the whole table, groups ignored
ShiftGlobal(sorted, p, lag, group_by) ==
    IF p - lag >= 1 /\ p - lag <= Len(sorted) THEN sorted[p - lag].v ELSE NaN

\* groupby(group_by)[value_column].shift(lag), or Series.shift(lag), at
\* row p
Shift(sorted, p, lag, group_by) ==
    LET members == GroupOf(sorted, p, group_by)
        j       == CHOOSE k \in 1..Len(members) : members[k] = p
    IN  IF j - lag >= 1 /\ j - lag <= Len(members)
        THEN sorted[members[j - lag]].v ELSE NaN

\* one rolling statistic over the values of a window; std is the sample
\* deviation (ddof = 1), held as its square
RollingAgg(func, xs) ==
    LET n  == Len(xs)
        sq == [k \in 1..n |-> xs[k] * xs[k]]
    IN  CASE func = "mean" -> (SumSeq(xs) * FScale) \div n
          [] func = "min"  -> SetMin(Range(xs)) * FScale
          [] func = "max"  -> SetMax(Range(xs)) * FScale
          [] func = "std"  -> IF n < 2 THEN NaN
                             ELSE ((n * SumSeq(sq) - SumSeq(xs) * SumSeq(xs))
                                   * FScale) \div (n * (n - 1))

\* variant: the window runs over the whole table, groups ignored
WindowGlobal(sorted, p, window, group_by) ==
    LET first == IF p - window + 1 > 1 THEN p - window + 1 ELSE 1
    IN  [k \in 1..(p - first + 1) |-> sorted[first + k - 1].v]

\* the values in the window of rolling(window, min_periods=1) ending at
\* row p: the last rows of its group up to and including p, at most window
Window(sorted, p, window, group_by) ==
    LET members == GroupOf(sorted, p, group_by)
        j       == CHOOSE k \in 1..Len(members) : members[k] = p
        first   == IF j - window + 1 > 1 THEN j - window + 1 ELSE 1
    IN  [k \in 1..(j - first + 1) |-> sorted[members[first + k - 1]].v]

NoFeat ==
    [op |-> "none", group_by |-> FALSE, params |-> <<>>, aggs |-> <<>>,
     rows |-> <<>>]

\* create_lag_features: column v_lag_k is f[k]
LagOutcome(t, lags, group_by, tie) ==
    LET sorted == SortForFeatures(t, group_by, tie)
    IN  [op |-> "lag", group_by |-> group_by, params |-> lags,
         aggs |-> <<>>,
         rows |-> [p \in 1..Len(sorted) |->
             [g |-> sorted[p].g, ds |-> sorted[p].ds, v |-> sorted[p].v,
              idx |-> sorted[p].idx,
              f |-> [k \in Range(lags) |-> Shift(sorted, p, k, group_by)]]]]

\* create_rolling_features: column v_rolling_wd_agg is f[<<w, agg>>]
RollingOutcome(t, windows, aggregations, group_by, tie) ==
    LET sorted == SortForFeatures(t, group_by, tie)
    IN  [op |-> "rolling", group_by |-> group_by, params |-> windows,
         aggs |-> aggregations,
         rows |-> [p \in 1..Len(sorted) |->
             [g |-> sorted[p].g, ds |-> sorted[p].ds, v |-> sorted[p].v,
              idx |-> sorted[p].idx,
              f |-> [wa \in Range(windows) \X Range(aggregations) |->
                        RollingAgg(wa[2],
                            Window(sorted, p, wa[1], group_by))]]]]

(***************************************************************************)
(* Input validation: validate_data                                         *)
(***************************************************************************)
\* min_records
MinRecords == 30

RequiredColumns == <<"data", "produto_id", "estoque", "consumo">>

\* A table is seen through what validation reads of it: its columns and,
\* per product, the number of its rows.
TotalRows(t) == SumSeq([p \in 1..NumProducts |-> t.counts[p]])

\* variant: a product with exactly min_records rows is warned about too
WarnedInclusive(t) ==
    {p \in 1..NumProducts : t.counts[p] > 0 /\ t.counts[p] <= MinRecords}

\* the products of the table for which the warning is printed
Warned(t) ==
    {p \in 1..NumProducts : t.counts[p] > 0 /\ t.counts[p] < MinRecords}

NoVdf == [cols |-> {}, counts |-> [p \in 1..NumProducts |-> 0]]

NoVal == [status |-> "none", message |-> "", warnings |-> {}]

ValidateOutcome(t) ==
    LET missing_columns ==
            SelectSeq(RequiredColumns, LAMBDA c : c \notin t.cols)
    IN  IF t.cols = {} \/ TotalRows(t) = 0
        THEN [status |-> "ValueError", message |-> "empty", warnings |-> {}]
        ELSE IF missing_columns # <<>>
        THEN [status |-> "ValueError", message |-> "columns",
              warnings |-> {}]
        ELSE IF TotalRows(t) < MinRecords
        THEN [status |-> "ValueError", message |-> "records",
              warnings |-> {}]
        ELSE [status |-> "ok", message |-> "", warnings |-> Warned(t)]

(***************************************************************************)
(* Alerts and severity: send_anomaly_alerts, send_anomaly_email,           *)
(* task_send_alerts, get_severity_badge                                    *)
(***************************************************************************)
\* anomaly_score is held in hundredths: min_anomaly_score 0.7 is 70
MinAnomalyScore == 70

\* format_anomaly_alert lists at most max_anomalies rows
MaxAnomalies == 10

\* the e-mail of the pipeline is made from the first 20 rows, and the HTML
\* table lists at most 20 rows
EmailHead == 20

\* severity in the text of an alert
SeverityText(score) ==
    IF score > 70 THEN "CRITICA" ELSE IF score > 60 THEN "ALTA" ELSE "MEDIA"

\* severity in the HTML e-mail
SeverityHtml(score) ==
    IF score > 70 THEN "CRITICA" ELSE IF score > 60 THEN "ALTA" ELSE "MEDIA"

\* get_severity_badge, and the Severidade column of the dashboard
SeverityBadge(score) ==
    IF score >= 70 THEN "CRITICA" ELSE IF score >= 60 THEN "ALTA" ELSE "MEDIA"

\* df[df["is_anomaly"]] then [anomaly_score >= min_score]: the positions of
\* the rows kept, in table order
AnomaliesFiltered(t, min_score) ==
    SelectSeq([i \in 1..Len(t) |-> i],
              LAMBDA i : t[i].is_anomaly /\ t[i].anomaly_score >= min_score)

\* DataFrame.head(n)
HeadRows(xs, n) == SubSeq(xs, 1, IF Len(xs) < n THEN Len(xs) ELSE n)

\* the scores of the rows a formatter lists: the n rows of highest score
\* among the rows handed to it
Listed(t, rows, n) ==
    LET scores == {t[rows[k]].anomaly_score : k \in 1..Len(rows)}
        above(x) == Cardinality({k \in 1..Len(rows) :
                                    t[rows[k]].anomaly_score > x})
    IN  {y \in scores : above(y) < n}

Channels == {"discord", "teams", "email"}

NoAlert ==
    [op |-> "none", min_score |-> MinAnomalyScore,
     handed |-> [c \in Channels |-> <<>>], invoked |-> {},
     results |-> <<>>, text |-> {}, html |-> {}, badges |-> {}]

\* variant: every channel tried is reported as delivered
SendAlertsOutcomeDelivered(t, min_score, send_discord, send_teams, deliver) ==
    LET min  == IF min_score = None THEN MinAnomalyScore ELSE min_score
        rows == AnomaliesFiltered(t, min)
        used == {c \in {"discord", "teams"} :
                    \/ c = "discord" /\ send_discord
                    \/ c = "teams" /\ send_teams}
    IN  IF rows = <<>>
        THEN [NoAlert EXCEPT !.op = "send_anomaly_alerts",
                  !.min_score = min,
                  !.results = [c \in {"discord", "teams"} |-> FALSE]]
        ELSE [op |-> "send_anomaly_alerts", min_score |-> min,
              handed |-> [c \in Channels |-> IF c \in used THEN rows
                                             ELSE <<>>],
              invoked |-> used,
              results |-> [c \in used |-> TRUE],
              text |-> {<<x, SeverityText(x)>> :
                           x \in Listed(t, rows, MaxAnomalies)},
              html |-> {}, badges |-> {}]

\* send_anomaly_alerts; deliver[c] says whether the transport of channel c
\* succeeds if it is tried
SendAlertsOutcome(t, min_score, send_discord, send_teams, deliver) ==
    LET min  == IF min_score = None THEN MinAnomalyScore ELSE min_score
        rows == AnomaliesFiltered(t, min)
        used == {c \in {"discord", "teams"} :
                    \/ c = "discord" /\ send_discord
                    \/ c = "teams" /\ send_teams}
    IN  IF rows = <<>>
        THEN [NoAlert EXCEPT !.op = "send_anomaly_alerts",
                  !.min_score = min,
                  !.results = [c \in {"discord", "teams"} |-> FALSE]]
        ELSE [op |-> "send_anomaly_alerts", min_score |-> min,
              handed |-> [c \in Channels |-> IF c \in used THEN rows
                                             ELSE <<>>],
              invoked |-> used,
              results |-> [c \in used |-> deliver[c]],
              text |-> {<<x, SeverityText(x)>> :
                           x \in Listed(t, rows, MaxAnomalies)},
              html |-> {}, badges |-> {}]

\* send_anomaly_email
SendEmailOutcome(t, min_score, deliver) ==
    LET min  == IF min_score = None THEN MinAnomalyScore ELSE min_score
        rows == AnomaliesFiltered(t, min)
    IN  IF rows = <<>>
        THEN [NoAlert EXCEPT !.op = "send_anomaly_email",
                  !.min_score = min,
                  !.results = [c \in {"email"} |-> FALSE]]
        ELSE [op |-> "send_anomaly_email", min_score |-> min,
              handed |-> [c \in Channels |-> IF c = "email" THEN rows
                                             ELSE <<>>],
              invoked |-> {"email"},
              results |-> [c \in {"email"} |-> deliver[c]],
              text |-> {<<x, SeverityText(x)>> :
                           x \in Listed(t, rows, MaxAnomalies)},
              html |-> {<<x, SeverityHtml(x)>> :
                           x \in Listed(t, rows, EmailHead)},
              badges |-> {}]

\* task_send_alerts; configured[c] says whether the webhook of channel c is
\* configured
TaskSendAlertsOutcome(t, send_email, configured, deliver) ==
    LET rows  == AnomaliesFiltered(t, MinAnomalyScore)
        all   == SendAlertsOutcome(t, MinAnomalyScore, configured["discord"],
                                   configured["teams"], deliver)
        first == HeadRows(rows, EmailHead)
    IN  IF rows = <<>>
        THEN [NoAlert EXCEPT !.op = "task_send_alerts",
                  !.results = [c \in Channels |-> FALSE]]
        ELSE [op |-> "task_send_alerts", min_score |-> MinAnomalyScore,
              handed |-> [c \in Channels |->
                             IF c = "email"
                             THEN IF send_email THEN first ELSE <<>>
                             ELSE all.handed[c]],
              invoked |-> all.invoked \cup
                              (IF send_email THEN {"email"} ELSE {}),
              results |-> [c \in DOMAIN all.results \cup {"email"} |->
                              IF c = "email"
                              THEN send_email /\ deliver[c]
                              ELSE all.results[c]],
              text |-> all.text \cup
                           (IF send_email
                            THEN {<<x, SeverityText(x)>> :
                                     x \in Listed(t, first, EmailHead)}
                            ELSE {}),
              html |-> IF send_email
                       THEN {<<x, SeverityHtml(x)>> :
                                x \in Listed(t, first, EmailHead)}
                       ELSE {},
              badges |-> {}]

\* the dashboard: a severity for each anomaly it shows
DashboardOutcome(t) ==
    [NoAlert EXCEPT !.op = "dashboard",
         !.badges = {<<t[i].anomaly_score, SeverityBadge(t[i].anomaly_score)>> :
                        i \in {k \in 1..Len(t) : t[k].is_anomaly}}]

(***************************************************************************)
(* Per-product forecasting: train_models_by_product, forecast_by_product   *)
(***************************************************************************)
\* train_models_by_product on a table whose product column is column.
\* The fit of a product raises when the product has fewer than two rows,
\* and for the products of fit_raises; save_model raises for the products
\* of save_raises.  The loop body runs in a try block: what it raises is
\* logged and the loop goes on.  The outcome is the products visited in
\* order, the keys of the returned map, the products whose model file was
\* written and the products logged as errors.
TrainModelsByProduct(column, fit_raises, save_raises, save_models) ==
    LET products == Unique(column)
        rows(p)  == Cardinality({i \in 1..Len(column) : column[i] = p})
        RECURSIVE Loop(_, _)
        Loop(k, acc) ==
            IF k > Len(products) THEN acc
            ELSE LET p == products[k]
                     seen == [acc EXCEPT !.visited = Append(@, p)]
                 IN  IF rows(p) < 2 \/ p \in fit_raises
                     THEN Loop(k + 1,
                               [seen EXCEPT !.logged = @ \cup {p}])
                     ELSE LET kept == [seen EXCEPT
                                          !.trained_models = @ \cup {p}]
                          IN  IF ~save_models THEN Loop(k + 1, kept)
                              ELSE IF p \in save_raises
                              THEN Loop(k + 1,
                                        [kept EXCEPT
                                            !.logged = @ \cup {p}])
                              ELSE Loop(k + 1,
                                        [kept EXCEPT
                                            !.saved = @ \cup {p}])
    IN  Loop(1, [visited |-> <<>>, trained_models |-> {}, saved |-> {},
                 logged |-> {}])

\* forecast_by_product(models, periods): pd.concat raises ValueError on an
\* empty list of forecasts; a forecast row is <<product, day ahead>>
ForecastByProduct(models, periods) ==
    IF models = {} THEN [status |-> "ValueError", rows |-> {}]
    ELSE [status |-> "ok",
          rows |-> {<<p, d>> : p \in models, d \in 1..periods}]

(***************************************************************************)
(* The pipeline flow: inventory_anomaly_detection_flow                     *)
(***************************************************************************)
\* the stages in the order in which the flow calls its tasks
FlowStages ==
    <<"load", "clean", "features", "aggregate", "forecast", "anomalies",
      "alerts", "report">>

\* no run of the flow
NoFlow ==
    [status |-> "none", opts |-> <<>>, file |-> <<>>, pc |-> 0,
     started |-> <<>>, completed |-> <<>>, training |-> <<>>,
     forecast |-> <<>>, transport |-> <<>>]

\* variant: the flow goes on to the next stage after a task has raised
StageDoneIgnoringFailure(f, called, ok) ==
    LET stage == FlowStages[f.pc]
    IN  [f EXCEPT
            !.started = IF called THEN Append(@, stage) ELSE @,
            !.completed = IF called /\ ok THEN Append(@, stage) ELSE @,
            !.pc = @ + 1,
            !.status = IF f.pc = Len(FlowStages) THEN "completed"
                       ELSE "running"]

\* the run f after the call of the task of its current stage: called says
\* whether the flow calls the task (the alert and report stages are
\* optional), ok whether the task returns.  A task that raises, after its
\* retries, ends the run: the flow has no try block.
StageDone(f, called, ok) ==
    LET stage == FlowStages[f.pc]
    IN  [f EXCEPT
            !.started = IF called THEN Append(@, stage) ELSE @,
            !.completed = IF called /\ ok THEN Append(@, stage) ELSE @,
            !.pc = IF called /\ ~ok THEN @ ELSE @ + 1,
            !.status = IF called /\ ~ok THEN "failed"
                       ELSE IF f.pc = Len(FlowStages) THEN "completed"
                       ELSE "running"]

(***************************************************************************)
(* Engine specification: a caller holding one table trains and scores      *)
(***************************************************************************)
\* values a column takes: consumption 0 or 1, stock 0, or missing
ColumnCells(c) == IF c = "consumo" THEN Cells ELSE {NaN, 0}

Rows(cols) == {r \in [cols -> Cells] : \A c \in cols : r[c] \in ColumnCells(c)}

\* the tables of n rows over the columns cs
Tables(cs, n) == {[cols |-> cs, rows |-> rs] : rs \in [1..n -> Rows(cs)]}

NoRes ==
    [op |-> "none", status |-> "ok", args |-> <<>>, fc |-> <<>>,
     model |-> NoModel, table |-> NoTable, calls |-> <<>>]

Init ==
    /\ \E cs \in SUBSET AllCols, n \in 0..MaxRows : df \in Tables(cs, n)
    /\ model = NoModel
    /\ res = NoRes
    /\ files = NoFiles
    /\ raw = NoRaw
    /\ agg = NoAgg
    /\ series = NoSeries
    /\ clean = NoClean
    /\ tab = <<>>
    /\ feat = NoFeat
    /\ vdf = NoVdf
    /\ val = NoVal
    /\ scored = <<>>
    /\ alert = NoAlert
    /\ flow = NoFlow

Train(fc) ==
    \E iso \in IsoChoices(Len(fc)) :
        LET o == TrainOutcome(df, fc, iso)
        IN  /\ res' = [op |-> "train", status |-> o.status, args |-> <<>>,
                       fc |-> fc,
                       model |-> o.model, table |-> NoTable,
                       calls |-> o.calls]
            /\ model' = IF o.status = "ok" THEN o.model ELSE model
            /\ UNCHANGED <<df, files, raw, agg, series, clean, tab, feat, vdf,
                           val, scored, alert, flow>>

Score(fc) ==
    /\ model # NoModel
    /\ LET o == ScoreOutcome(model, df, fc)
       IN  /\ res' = [op |-> "score", status |-> o.status, args |-> <<>>,
                       fc |-> fc, model |-> model, table |-> o.table,
                       calls |-> o.calls]
           /\ df' = InputAfter(df, o.table)
    /\ UNCHANGED <<model, files, raw, agg, series, clean, tab, feat, vdf,
                   val, scored, alert, flow>>

DetectAnomalies(cc, ec, train_model) ==
    \E iso \in IsoChoices(Len(FeatureCols(df, cc, ec))) :
        LET o == DetectOutcome(df, cc, ec, train_model, iso)
        IN  /\ res' = [op |-> "detect", status |-> o.status,
                       args |-> <<cc, ec>>, fc |-> o.fc,
                       model |-> o.model, table |-> o.table,
                       calls |-> o.calls, train_model |-> train_model]
            /\ model' = IF o.status = "ok" THEN o.model ELSE model
            /\ df' = InputAfter(df, o.table)
            /\ UNCHANGED <<files, raw, agg, series, clean, tab, feat, vdf,
                           val, scored, alert, flow>>

Next ==
    \/ \E fc \in FeatureLists : Train(fc)
    \/ \E fc \in FeatureLists : Score(fc)
    \/ \E cc \in AllCols, train_model \in BOOLEAN :
           \E ec \in AllCols \ {cc} : DetectAnomalies(cc, ec, train_model)

Spec == Init /\ [][Next]_vars

(***************************************************************************)
(* Store specification: a caller fits models on one small table and saves  *)
(* and loads them under the file_path arguments of Paths                   *)
(***************************************************************************)
StoreTable == [cols |-> {"consumo"}, rows |-> <<[consumo |-> 0]>>]

\* a model left in the directory by an earlier run
OldModel == Fit(<<<<0>>>>, <<"consumo">>, <<>>)

InitStore ==
    /\ df = StoreTable
    /\ model = NoModel
    /\ res = NoRes
    /\ files \in [FileNames -> {Absent, Dump(OldModel, FALSE)}]
    /\ raw = NoRaw
    /\ agg = NoAgg
    /\ series = NoSeries
    /\ clean = NoClean
    /\ tab = <<>>
    /\ feat = NoFeat
    /\ vdf = NoVdf
    /\ val = NoVal
    /\ scored = <<>>
    /\ alert = NoAlert
    /\ flow = NoFlow

Save(p, compress) ==
    /\ model # NoModel
    /\ files' = [files EXCEPT ![SaveTarget(p, compress)] =
                     Dump(model, compress)]
    /\ res' = [op |-> "save", status |-> "ok", args |-> <<p, compress>>,
               fc |-> <<>>, model |-> model, table |-> NoTable,
               calls |-> <<>>]
    /\ UNCHANGED <<df, model, raw, agg, series, clean, tab, feat, vdf, val,
                   scored, alert, flow>>

Load(p) ==
    LET target == LoadTarget(files, p)
    IN  /\ IF Exists(files, target)
           THEN /\ model' = Undump(files[target])
                /\ res' = [op |-> "load", status |-> "ok", args |-> <<p>>,
                           fc |-> <<>>, model |-> Undump(files[target]),
                           table |-> NoTable, calls |-> <<>>]
           ELSE /\ model' = model
                /\ res' = [op |-> "load", status |-> "FileNotFoundError",
                           args |-> <<p>>, fc |-> <<>>, model |-> NoModel,
                           table |-> NoTable, calls |-> <<>>]
        /\ UNCHANGED <<df, files, raw, agg, series, clean, tab, feat, vdf,
                       val, scored, alert, flow>>

NextStore ==
    \/ Train(<<"consumo">>)
    \/ \E p \in Paths, c \in BOOLEAN : Save(p, c)
    \/ \E p \in Paths : Load(p)

SpecStore == InitStore /\ [][NextStore]_vars

(***************************************************************************)
(* Aggregator specification: a caller aggregates one raw table, once       *)
(***************************************************************************)
Products == 1..NumProducts

\* midnight of every day, and the later times of day of day 1
Timestamps ==
    {d * TicksPerDay : d \in 1..MaxDay} \cup
    {TicksPerDay + t : t \in 1..(TicksPerDay - 1)}

\* raw rows: consumption 1 or 2, stock 5
RawRowsOf(cols) ==
    {r \in [cols -> Products \cup Timestamps \cup {1, 2, 5}] :
        /\ "produto_id" \in cols => r["produto_id"] \in Products
        /\ "data" \in cols => r["data"] \in Timestamps
        /\ "consumo" \in cols => r["consumo"] \in {1, 2}
        /\ "estoque" \in cols => r["estoque"] = 5}

RawColSets ==
    {{"data", "produto_id", "consumo", "estoque"}, {"produto_id", "consumo"}}

\* the raw tables of n rows over the columns cs
RawTables(cs, n) ==
    {[cols |-> cs, rows |-> rs] : rs \in [1..n -> RawRowsOf(cs)]}

\* aggregation specs a caller passes besides the default: a column the
\* table does not have, and a statistic that is not supported
AggSpecs ==
    {DefaultAggregations,
     << [col |-> "preco", funcs |-> <<"mean">>] >>,
     << [col |-> "consumo", funcs |-> <<"median">>] >>}

InitAgg ==
    /\ df = [cols |-> {}, rows |-> <<>>]
    /\ model = NoModel
    /\ res = NoRes
    /\ files = NoFiles
    /\ \E cs \in RawColSets, n \in 1..MaxRaw : raw \in RawTables(cs, n)
    /\ agg = NoAgg
    /\ series = NoSeries
    /\ clean = NoClean
    /\ tab = <<>>
    /\ feat = NoFeat
    /\ vdf = NoVdf
    /\ val = NoVal
    /\ scored = <<>>
    /\ alert = NoAlert
    /\ flow = NoFlow

AggregateDaily(aggregations, fill) ==
    /\ agg = NoAgg
    /\ LET o == AggregateOutcome(raw, aggregations, fill)
       IN  /\ agg' = o
           /\ raw' = InputAfter(raw, o.rows)
    /\ UNCHANGED <<df, model, res, files, series, clean, tab, feat, vdf,
                   val, scored, alert, flow>>

\* aggregate_consumo_daily_by_item
AggregateConsumo(fill) ==
    AggregateDaily(<< [col |-> "consumo",
                       funcs |-> <<"mean", "sum", "min", "max", "std",
                                   "count">>] >>, fill)

\* aggregate_stock_daily_by_item
AggregateStock(fill) ==
    AggregateDaily(<< [col |-> "estoque",
                       funcs |-> <<"mean", "min", "max", "std">>] >>, fill)

NextAgg ==
    \/ \E a \in AggSpecs, fill \in BOOLEAN : AggregateDaily(a, fill)
    \/ \E fill \in BOOLEAN : AggregateConsumo(fill)
    \/ \E fill \in BOOLEAN : AggregateStock(fill)

SpecAgg == InitAgg /\ [][NextAgg]_vars

(***************************************************************************)
(* Cleaner specification: a caller cleans one series, once                 *)
(***************************************************************************)
\* rows of a series: the date 1 or 2, so that a date can occur several
\* times, and a consumption that is negative, positive or missing
SeriesRowsOf(cols) ==
    {r \in [cols -> {1, 2} \cup {NaN, 0 - 4, 4}] :
        /\ "ds" \in cols => r["ds"] \in {1, 2}
        /\ "y" \in cols => r["y"] \in {NaN, 0 - 4, 4}}

\* the series of n rows over the columns cs
SeriesTables(cs, n) ==
    {[cols |-> cs, rows |-> rs] : rs \in [1..n -> SeriesRowsOf(cs)]}

\* the default values of the options
DefaultOptions ==
    [remove_outliers |-> TRUE, outlier_method |-> "iqr",
     fill_missing |-> TRUE, fill_method |-> "forward_fill",
     min_value |-> None, max_value |-> None, remove_negative |-> TRUE]

\* the options a caller passes: outlier removal off or by a method, filling
\* off or by a method, no envelope or the envelope [-2, 2], negatives kept
\* or zeroed; the defaults with a method the cleaner does not support; and
\* the defaults with the envelope [-6, -2], which lies below zero, and no
\* filling
CleanOptions ==
    {o \in [remove_outliers : BOOLEAN,
            outlier_method : {"iqr", "zscore"},
            fill_missing : BOOLEAN,
            fill_method : FillMethods,
            min_value : {None, 0 - 2}, max_value : {None, 2},
            remove_negative : BOOLEAN] :
        /\ ~o.remove_outliers => o.outlier_method = "iqr"
        /\ ~o.fill_missing => o.fill_method = "forward_fill"
        /\ o.min_value = None <=> o.max_value = None}
    \cup {[DefaultOptions EXCEPT !.outlier_method = "mad"],
          [DefaultOptions EXCEPT !.fill_method = "median"],
          [DefaultOptions EXCEPT !.min_value = 0 - 6, !.max_value = 0 - 2,
                                 !.fill_missing = FALSE]}

InitClean ==
    /\ df = [cols |-> {}, rows |-> <<>>]
    /\ model = NoModel
    /\ res = NoRes
    /\ files = NoFiles
    /\ raw = NoRaw
    /\ agg = NoAgg
    /\ \E cs \in {{"ds", "y"}, {"ds"}, {"y"}}, n \in 0..MaxSeries :
           series \in SeriesTables(cs, n)
    /\ clean = NoClean
    /\ tab = <<>>
    /\ feat = NoFeat
    /\ vdf = NoVdf
    /\ val = NoVal
    /\ scored = <<>>
    /\ alert = NoAlert
    /\ flow = NoFlow

CleanConsumo(o, tie) ==
    /\ clean = NoClean
    /\ LET c == CleanOutcome(series, o, tie)
       IN  /\ clean' = c
           /\ series' = InputAfter(series, c.rows)
    /\ UNCHANGED <<df, model, res, files, raw, agg, tab, feat, vdf, val,
                   scored, alert, flow>>

NextClean ==
    \E o \in CleanOptions, tie \in {"stable", "reversed"} : CleanConsumo(o, tie)

SpecClean == InitClean /\ [][NextClean]_vars

(***************************************************************************)
(* Feature specification: a caller builds features on one table, once      *)
(***************************************************************************)
\* tables of n rows: a group 1 or 2, a date 1..3, a value 1 or 2
FeatureTables(n) ==
    [1..n -> [g : {1, 2}, ds : {1, 2, 3}, v : {1, 2}]]

InitFeat ==
    /\ df = [cols |-> {}, rows |-> <<>>]
    /\ model = NoModel
    /\ res = NoRes
    /\ files = NoFiles
    /\ raw = NoRaw
    /\ agg = NoAgg
    /\ series = NoSeries
    /\ clean = NoClean
    /\ \E n \in 0..MaxFeat : tab \in FeatureTables(n)
    /\ feat = NoFeat
    /\ vdf = NoVdf
    /\ val = NoVal
    /\ scored = <<>>
    /\ alert = NoAlert
    /\ flow = NoFlow

CreateLagFeatures(lags, group_by, tie) ==
    /\ feat = NoFeat
    /\ LET o == LagOutcome(tab, lags, group_by, tie)
       IN  /\ feat' = o
           /\ tab' = InputAfter(tab, o.rows)
    /\ UNCHANGED <<df, model, res, files, raw, agg, series, clean, vdf, val,
                   scored, alert, flow>>

CreateRollingFeatures(windows, group_by, tie) ==
    /\ feat = NoFeat
    /\ LET o == RollingOutcome(tab, windows,
                               <<"mean", "std", "min", "max">>, group_by,
                               tie)
       IN  /\ feat' = o
           /\ tab' = InputAfter(tab, o.rows)
    /\ UNCHANGED <<df, model, res, files, raw, agg, series, clean, vdf, val,
                   scored, alert, flow>>

\* the sort of one key is not stable, the sort of two keys is
FeatureCalls ==
    {c \in [group_by : BOOLEAN, tie : {"stable", "reversed"}] :
        c.group_by => c.tie = "stable"}

NextFeat ==
    \/ \E lags \in {<<1>>, <<1, 2>>}, c \in FeatureCalls :
           CreateLagFeatures(lags, c.group_by, c.tie)
    \/ \E windows \in {<<2>>, <<2, 3>>}, c \in FeatureCalls :
           CreateRollingFeatures(windows, c.group_by, c.tie)

SpecFeat == InitFeat /\ [][NextFeat]_vars

(***************************************************************************)
(* Validation specification: a caller validates one table, once            *)
(***************************************************************************)
\* row counts of a product: none, one, and the counts around min_records
RowCounts == {0, 1, MinRecords - 1, MinRecords, MinRecords + 5}

\* the tables: every required column, one of them absent, or no column
ValidationTables ==
    [cols : {Range(RequiredColumns), Range(RequiredColumns) \ {"estoque"},
             {}},
     counts : [1..NumProducts -> RowCounts]]

InitVal ==
    /\ df = [cols |-> {}, rows |-> <<>>]
    /\ model = NoModel
    /\ res = NoRes
    /\ files = NoFiles
    /\ raw = NoRaw
    /\ agg = NoAgg
    /\ series = NoSeries
    /\ clean = NoClean
    /\ tab = <<>>
    /\ feat = NoFeat
    /\ vdf \in ValidationTables
    /\ val = NoVal
    /\ scored = <<>>
    /\ alert = NoAlert
    /\ flow = NoFlow

ValidateData ==
    /\ val = NoVal
    /\ val' = ValidateOutcome(vdf)
    /\ UNCHANGED <<df, model, res, files, raw, agg, series, clean, tab, feat,
                   vdf, scored, alert, flow>>

NextVal == ValidateData

SpecVal == InitVal /\ [][NextVal]_vars

(***************************************************************************)
(* Alert specification: one table of scored rows is alerted on or shown    *)
(***************************************************************************)
\* tables of two runs of equal rows, of no row, one row, and as many rows
\* as, or one more than, the e-mail of the pipeline takes; a row is not
\* flagged, or flagged with a score below, at, between, at or above the
\* two severity thresholds
ScoredTables ==
    LET kinds == {[is_anomaly |-> FALSE, anomaly_score |-> 80]} \cup
                 [is_anomaly : {TRUE}, anomaly_score : {50, 60, 65, 70, 80}]
    IN  {[i \in 1..(m + n) |-> IF i <= m THEN a ELSE b] :
            a \in kinds, b \in kinds,
            m \in {0, 1, EmailHead, EmailHead + 1}, n \in {0, 1}}

InitAlert ==
    /\ df = [cols |-> {}, rows |-> <<>>]
    /\ model = NoModel
    /\ res = NoRes
    /\ files = NoFiles
    /\ raw = NoRaw
    /\ agg = NoAgg
    /\ series = NoSeries
    /\ clean = NoClean
    /\ tab = <<>>
    /\ feat = NoFeat
    /\ vdf = NoVdf
    /\ val = NoVal
    /\ scored \in ScoredTables
    /\ alert = NoAlert
    /\ flow = NoFlow

AlertIdle ==
    /\ alert = NoAlert
    /\ UNCHANGED <<df, model, res, files, raw, agg, series, clean, tab, feat,
                   vdf, val, scored, flow>>

SendAnomalyAlerts(min_score, send_discord, send_teams, deliver) ==
    /\ AlertIdle
    /\ alert' = SendAlertsOutcome(scored, min_score, send_discord,
                                  send_teams, deliver)

SendAnomalyEmail(min_score, deliver) ==
    /\ AlertIdle
    /\ alert' = SendEmailOutcome(scored, min_score, deliver)

TaskSendAlerts(send_email, configured, deliver) ==
    /\ AlertIdle
    /\ alert' = TaskSendAlertsOutcome(scored, send_email, configured, deliver)

Dashboard ==
    /\ AlertIdle
    /\ alert' = DashboardOutcome(scored)

NextAlert ==
    \/ \E min_score \in {None, 60}, d \in BOOLEAN, t \in BOOLEAN,
          deliver \in [Channels -> BOOLEAN] :
           SendAnomalyAlerts(min_score, d, t, deliver)
    \/ \E min_score \in {None, 60}, deliver \in [Channels -> BOOLEAN] :
           SendAnomalyEmail(min_score, deliver)
    \/ \E send_email \in BOOLEAN, configured \in [Channels -> BOOLEAN],
          deliver \in [Channels -> BOOLEAN] :
           TaskSendAlerts(send_email, configured, deliver)
    \/ Dashboard

SpecAlert == InitAlert /\ [][NextAlert]_vars

(***************************************************************************)
(* Flow specification: one run of the pipeline on one data file            *)
(***************************************************************************)
\* the rows of the data file as load_inventory_data returns them, sorted
\* by product and date: at most MaxFeat rows, one row at most for a
\* product and a day, a consumption of 4 and a stock of 5
FlowFiles ==
    LET kinds == [produto_id : Products, data : 1..MaxDay, consumo : {4},
                  estoque : {5}]
        key(r) == <<r.produto_id, r.data>>
    IN  UNION {{t \in [1..n -> kinds] :
                   \A i \in 1..(n - 1) : KeyLess(key(t[i]), key(t[i + 1]))} :
               n \in 0..MaxFeat}

\* load_raw_consumo: the columns ds and y, and produto_id when the file
\* holds several products, without the rows of a missing value, sorted by
\* date.  (The model keeps the field produto_id in every case: when the
\* column is absent task_create_features merges it back in by date.)
LoadRawConsumo(rows, tie) ==
    LET consumo == [i \in 1..Len(rows) |->
                       [ds |-> rows[i].data, y |-> rows[i].consumo,
                        produto_id |-> rows[i].produto_id]]
        several == Cardinality({rows[i].produto_id : i \in 1..Len(rows)}) > 1
    IN  [cols |-> {"ds", "y"} \cup
                      (IF several THEN {"produto_id"} ELSE {}),
         rows |-> SortByDs(SelectSeq(consumo, LAMBDA r : r.y # NaN), tie)]

InitFlow ==
    /\ df = [cols |-> {}, rows |-> <<>>]
    /\ model = NoModel
    /\ res = NoRes
    /\ files = NoFiles
    /\ raw = NoRaw
    /\ agg = NoAgg
    /\ series = NoSeries
    /\ clean = NoClean
    /\ tab = <<>>
    /\ feat = NoFeat
    /\ vdf = NoVdf
    /\ val = NoVal
    /\ scored = <<>>
    /\ alert = NoAlert
    /\ \E t \in FlowFiles, a \in BOOLEAN, e \in BOOLEAN, r \in BOOLEAN :
           /\ ~a => ~e
           /\ flow = [NoFlow EXCEPT
                         !.status = "running", !.file = t, !.pc = 1,
                         !.opts = [send_alerts |-> a, send_email |-> e,
                                   generate_pdf_report |-> r]]

\* the flow is about to call the task of the stage
AtStage(stage) ==
    /\ flow.status = "running"
    /\ FlowStages[flow.pc] = stage

\* 1. task_load_data: found says whether the file can be read; an empty
\* file is a ValueError
StageLoad(found, tie) ==
    /\ AtStage("load")
    /\ LET ok == found /\ flow.file # <<>>
       IN  /\ flow' = StageDone(flow, TRUE, ok)
           /\ raw' = IF ok
                     THEN [cols |-> {"data", "produto_id", "consumo",
                                     "estoque"},
                           rows |-> [i \in 1..Len(flow.file) |->
                                        [flow.file[i] EXCEPT
                                            !.data = @ * TicksPerDay]]]
                     ELSE raw
           /\ series' = IF ok THEN LoadRawConsumo(flow.file, tie) ELSE series
    /\ UNCHANGED <<df, model, res, files, agg, clean, tab, feat, vdf, val,
                   scored, alert>>

\* 2. task_clean_data
StageClean(tie) ==
    /\ AtStage("clean")
    /\ LET o == CleanOutcome(series,
                             [DefaultOptions EXCEPT
                                 !.fill_method = "interpolate"], tie)
       IN  /\ clean' = o
           /\ flow' = StageDone(flow, TRUE, o.status = "ok")
    /\ UNCHANGED <<df, model, res, files, raw, agg, series, tab, feat, vdf,
                   val, scored, alert>>

\* 3. task_create_features: lag features per product on the cleaned rows
StageFeatures ==
    /\ AtStage("features")
    /\ LET t == [i \in 1..Len(clean.rows) |->
                    [g |-> series.rows[clean.rows[i].idx].produto_id,
                     ds |-> clean.rows[i].ds, v |-> clean.rows[i].y]]
       IN  /\ tab' = t
           /\ feat' = LagOutcome(t, <<1, 7, 30>>, TRUE, "stable")
    /\ flow' = StageDone(flow, TRUE, TRUE)
    /\ UNCHANGED <<df, model, res, files, raw, agg, series, clean, vdf, val,
                   scored, alert>>

\* 4. task_aggregate_data
StageAggregate ==
    /\ AtStage("aggregate")
    /\ LET o == AggregateOutcome(raw, DefaultAggregations, FALSE)
       IN  /\ agg' = o
           /\ flow' = StageDone(flow, TRUE, o.status = "ok")
    /\ UNCHANGED <<df, model, res, files, raw, series, clean, tab, feat,
                   vdf, val, scored, alert>>

\* 5. task_train_prophet_models: the models per product, the forecast of
\* 7 days, and the forecast file, which is written or not
StageForecast(fit_raises, save_raises, written) ==
    /\ AtStage("forecast")
    /\ LET column == [i \in 1..Len(feat.rows) |-> feat.rows[i].g]
           t  == TrainModelsByProduct(column, fit_raises, save_raises, TRUE)
           fc == ForecastByProduct(t.trained_models, 7)
       IN  /\ fit_raises \cup save_raises \subseteq Range(column)
           /\ fit_raises \cap save_raises = {}
           /\ fc.status # "ok" => written
           /\ flow' = [StageDone(flow, TRUE, fc.status = "ok" /\ written)
                          EXCEPT !.training = t, !.forecast = fc]
    /\ UNCHANGED <<df, model, res, files, raw, agg, series, clean, tab,
                   feat, vdf, val, scored, alert>>

\* 6. task_detect_anomalies: it returns the scored table t, or raises (no
\* valid row, or a file that cannot be written).  The scored table is one
\* row that is not flagged, or flagged with a score below or above
\* min_anomaly_score.
StageAnomalies(t, ok) ==
    /\ AtStage("anomalies")
    /\ scored' = IF ok THEN t ELSE scored
    /\ flow' = StageDone(flow, TRUE, ok)
    /\ UNCHANGED <<df, model, res, files, raw, agg, series, clean, tab,
                   feat, vdf, val, alert>>

\* 7. task_send_alerts, when send_alerts is set
StageAlerts(configured, deliver) ==
    /\ AtStage("alerts")
    /\ IF flow.opts.send_alerts
       THEN LET o == TaskSendAlertsOutcome(scored, flow.opts.send_email,
                                           configured, deliver)
            IN  /\ configured["email"]
                /\ \A c \in Channels \ o.invoked : deliver[c]
                /\ alert' = o
                /\ flow' = [StageDone(flow, TRUE, TRUE) EXCEPT
                               !.transport = [c \in o.invoked |->
                                                 deliver[c]]]
       ELSE /\ \A c \in Channels : configured[c] /\ deliver[c]
            /\ alert' = alert
            /\ flow' = StageDone(flow, FALSE, TRUE)
    /\ UNCHANGED <<df, model, res, files, raw, agg, series, clean, tab,
                   feat, vdf, val, scored>>

\* 8. task_generate_report, when generate_pdf_report is set: the report is
\* written or not
StageReport(written) ==
    /\ AtStage("report")
    /\ IF flow.opts.generate_pdf_report
       THEN flow' = StageDone(flow, TRUE, written)
       ELSE written /\ flow' = StageDone(flow, FALSE, TRUE)
    /\ UNCHANGED <<df, model, res, files, raw, agg, series, clean, tab,
                   feat, vdf, val, scored, alert>>

NextFlow ==
    \/ \E found \in BOOLEAN, tie \in {"stable", "reversed"} :
           StageLoad(found, tie)
    \/ \E tie \in {"stable", "reversed"} : StageClean(tie)
    \/ StageFeatures
    \/ StageAggregate
    \/ \E fit_raises \in SUBSET Products, save_raises \in SUBSET Products,
          written \in BOOLEAN :
           StageForecast(fit_raises, save_raises, written)
    \/ \E t \in {<<[is_anomaly |-> FALSE, anomaly_score |-> 40]>>,
                 <<[is_anomaly |-> TRUE, anomaly_score |-> 60]>>,
                 <<[is_anomaly |-> TRUE, anomaly_score |-> 80]>>},
          ok \in BOOLEAN :
           StageAnomalies(t, ok)
    \/ \E configured \in [Channels -> BOOLEAN],
          deliver \in [Channels -> BOOLEAN] :
           StageAlerts(configured, deliver)
    \/ \E written \in BOOLEAN : StageReport(written)

SpecFlow == InitFlow /\ [][NextFlow]_vars

(***************************************************************************)
(* Frame specification: a caller holding one table calls the engine, the   *)
(* aggregator, the cleaner or a feature builder on it                      *)
(***************************************************************************)
\* the caller holds a table of one kind; the other tables are empty
InitFrame ==
    /\ model = NoModel
    /\ res = NoRes
    /\ files = NoFiles
    /\ agg = NoAgg
    /\ clean = NoClean
    /\ feat = NoFeat
    /\ vdf = NoVdf
    /\ val = NoVal
    /\ scored = <<>>
    /\ alert = NoAlert
    /\ flow = NoFlow
    /\ \E kind \in {"df", "raw", "series", "tab"} :
           /\ df \in IF kind = "df"
                     THEN UNION {Tables(cs, 1) : cs \in SUBSET AllCols}
                     ELSE {[cols |-> {}, rows |-> <<>>]}
           /\ raw \in IF kind = "raw"
                      THEN UNION {RawTables(cs, n) :
                                     cs \in RawColSets, n \in 1..MaxRaw}
                      ELSE {NoRaw}
           /\ series \in IF kind = "series"
                         THEN UNION {SeriesTables({"ds", "y"}, n) :
                                        n \in 1..MaxRaw}
                         ELSE {NoSeries}
           /\ tab \in IF kind = "tab"
                      THEN UNION {FeatureTables(n) : n \in 1..MaxRaw}
                      ELSE {<<>>}

\* the caller calls the operations made for the kind of table it holds:
\* the engine any number of times, the others once
NextFrame ==
    \/ raw = NoRaw /\ series = NoSeries /\ tab = <<>> /\ Next
    \/ raw # NoRaw /\ NextAgg
    \/ series # NoSeries /\ NextClean
    \/ tab # <<>> /\ NextFeat

SpecFrame == InitFrame /\ [][NextFrame]_vars

(***************************************************************************)
(* Properties of the anomaly engine                                        *)
(***************************************************************************)
\* row i of table d has a missing value in one of the feature columns fc
HasMissing(d, fc, i) == \E j \in 1..Len(fc) : d.rows[i][fc[j]] = NaN

\* the feature vector of row i
Vec(d, fc, i) == [j \in 1..Len(fc) |-> d.rows[i][fc[j]]]

\* indices of the rows with every feature present, and the k-th of them
ValidIdx(d, fc) == {i \in 1..Len(d.rows) : ~HasMissing(d, fc, i)}

KthValid(d, fc, k) ==
    CHOOSE i \in ValidIdx(d, fc) :
        Cardinality({j \in ValidIdx(d, fc) : j <= i}) = k

\* the model's binary decision for one feature vector
LabelsOutlier(m, x) == m.tab[x] - m.offset < 0

Scored == res.op \in {"score", "detect"} /\ res.status = "ok"

\* C1: after Score returns, a row with a missing feature has anomaly_score
\* NaN and is_anomaly false; any other row has a defined anomaly_score and
\* is flagged exactly when the model's binary decision labels it an outlier.
C1_ScoredRows ==
    Scored =>
        /\ Len(res.table) = Len(df.rows)
        /\ \A i \in 1..Len(df.rows) :
              /\ res.table[i].row = df.rows[i]
              /\ IF HasMissing(df, res.fc, i)
                 THEN /\ res.table[i].anomaly_score = NaN
                      /\ res.table[i].is_anomaly = FALSE
                 ELSE /\ res.table[i].anomaly_score # NaN
                      /\ res.table[i].anomaly_score =
                             0 - res.model.tab[Vec(df, res.fc, i)]
                      /\ res.table[i].is_anomaly =
                             LabelsOutlier(res.model, Vec(df, res.fc, i))

C1_Witness ==
    /\ res.op = "score" /\ res.status = "ok"
    /\ \E i, j \in 1..Len(res.table) :
          /\ i < j
          /\ res.table[i].anomaly_score = NaN
          /\ res.table[j].is_anomaly

\* C2: Score called with a feature_columns list other than the list the
\* model was trained with is rejected with an error.
C2_BindingEnforced ==
    (res.op = "score" /\ res.fc # res.model.cols) => res.status # "ok"

\* C3: Score fails with a data error and returns no table whenever a
\* feature column is absent from the data or no row has all features
\* present; the table and the model are left as they were, and the
\* missing-column failure happens before any call on the model.
C3_ScoreRejects ==
    [][ (res'.op = "score" /\
         (\/ MissingCols(df, res'.fc) # <<>>
          \/ \A i \in 1..Len(df.rows) : HasMissing(df, res'.fc, i)))
        => /\ res'.status = "ValueError"
           /\ res'.table = NoTable
           /\ df' = df /\ model' = model
           /\ (MissingCols(df, res'.fc) # <<>> => res'.calls = <<>>) ]_vars

C3_Witness ==
    /\ res.op = "score" /\ res.status = "ValueError"
    /\ MissingCols(df, res.fc) # <<>>
    /\ Len(df.rows) > 0

\* C4: Train fits on exactly the rows in which every feature column is
\* present, in their order; it fails with a data error and yields no model
\* when a feature column is absent or no such row exists.
C4_TrainFitSet ==
    [][ res'.op = "train" =>
        IF \/ MissingCols(df, res'.fc) # <<>>
           \/ ValidIdx(df, res'.fc) = {}
        THEN /\ res'.status = "ValueError"
             /\ res'.model = NoModel
             /\ res'.calls = <<>>
             /\ model' = model
        ELSE /\ res'.status = "ok"
             /\ model' = res'.model
             /\ res'.model.cols = res'.fc
             /\ Len(res'.model.fit) = Cardinality(ValidIdx(df, res'.fc))
             /\ \A k \in 1..Len(res'.model.fit) :
                   res'.model.fit[k] =
                       Vec(df, res'.fc, KthValid(df, res'.fc, k)) ]_vars

C4_Witness ==
    /\ res.op = "train" /\ res.status = "ok"
    /\ Len(res.model.fit) >= 1
    /\ Len(res.model.fit) < Len(df.rows)

C5_RoundTrip ==
    [][ (res.op = "save" /\ res.status = "ok" /\
         res'.op = "load" /\ res'.args[1] = res.args[1])
        => (res'.status = "ok" /\ res'.model = res.model) ]_vars

\* the counterpart of a file_path under the compressed extension: a path
\* ending in .pkl has the counterpart .pkl.gz; other paths have none
HasCounterpart(p) == Suffix(p) = "pkl"

Counterpart(p) == p \o <<"gz">>

AggOk == agg.status = "ok"

\* calendar day of a raw timestamp
DayOf(ts) == ts \div TicksPerDay

RawProducts == {raw.rows[i]["produto_id"] : i \in 1..Len(raw.rows)}

RawDays == {DayOf(raw.rows[i]["data"]) : i \in 1..Len(raw.rows)}

\* number of calendar days from the first to the last raw day, inclusive
SpanDays == SetMax(RawDays) - SetMin(RawDays) + 1

\* number of raw rows of product p on calendar day d
RawCount(p, d) ==
    Cardinality({i \in 1..Len(raw.rows) :
        raw.rows[i]["produto_id"] = p /\ DayOf(raw.rows[i]["data"]) = d})

\* C8 as stated: the row count is at most products x observed days for
\* every input, and with gap-filling it is products x days of the span.
C8_RowCountAsStated ==
    AggOk =>
        /\ Len(agg.rows) <= Cardinality(RawProducts) * Cardinality(RawDays)
        /\ agg.fill => Len(agg.rows) = Cardinality(RawProducts) * SpanDays

\* C8 amended: without gap-filling the row count is at most products x
\* observed days; with gap-filling it is exactly products x days of the
\* span from the first to the last date.
C8_RowCount ==
    AggOk =>
        /\ ~agg.fill =>
              Len(agg.rows) <= Cardinality(RawProducts) * Cardinality(RawDays)
        /\ agg.fill => Len(agg.rows) = Cardinality(RawProducts) * SpanDays

C8_Witness ==
    /\ AggOk /\ agg.fill
    /\ Cardinality(RawProducts) = 2
    /\ Cardinality(RawDays) < SpanDays
    /\ Len(agg.rows) = 2 * SpanDays

\* C9: every aggregate of a (product, day) with at least one raw row is
\* defined, std and one-row groups included; a (product, day) without raw
\* rows appears only with gap-filling and has every aggregate missing.
C9_AggregatesDefined ==
    AggOk =>
        \A i \in 1..Len(agg.rows) :
            LET r == agg.rows[i]
                n == RawCount(r.produto_id, DayOf(r.data))
            IN  /\ n >= 1 => \A pr \in DOMAIN r.stats : r.stats[pr] # NaN
                /\ n = 0 => /\ agg.fill
                            /\ \A pr \in DOMAIN r.stats : r.stats[pr] = NaN

\* C10: the output has one row per (product, calendar day), raw rows of
\* one day sharing a key whatever their time of day, and its rows are in
\* strictly ascending (produto_id, data) order, with or without gap-filling.
C10_OneRowPerKeySorted ==
    AggOk =>
        /\ \A i \in 1..Len(agg.rows) : agg.rows[i].data % TicksPerDay = 0
        /\ \A i \in 1..Len(agg.rows) : \A j \in (i + 1)..Len(agg.rows) :
              \/ agg.rows[i].produto_id < agg.rows[j].produto_id
              \/ /\ agg.rows[i].produto_id = agg.rows[j].produto_id
                 /\ agg.rows[i].data < agg.rows[j].data
        /\ \A k \in 1..Len(raw.rows) : \E i \in 1..Len(agg.rows) :
              /\ agg.rows[i].produto_id = raw.rows[k]["produto_id"]
              /\ DayOf(agg.rows[i].data) = DayOf(raw.rows[k]["data"])
        /\ ~agg.fill =>
              \A i \in 1..Len(agg.rows) :
                  RawCount(agg.rows[i].produto_id, DayOf(agg.rows[i].data)) >= 1

C10_Witness ==
    /\ AggOk
    /\ Len(raw.rows) = 2
    /\ raw.rows[1]["produto_id"] = raw.rows[2]["produto_id"]
    /\ raw.rows[1]["data"] > raw.rows[2]["data"]
    /\ DayOf(raw.rows[1]["data"]) = DayOf(raw.rows[2]["data"])
    /\ Len(agg.rows) = 1

\* the call was made on a table that has both key columns
KeyColsPresent == {"data", "produto_id"} \subseteq raw.cols

\* no entry of the aggregation spec names both a column of the table and a
\* supported statistic
ZeroPairs ==
    \A k \in 1..Len(agg.aggregations) :
        \/ agg.aggregations[k].col \notin raw.cols
        \/ \A j \in 1..Len(agg.aggregations[k].funcs) :
               agg.aggregations[k].funcs[j] \notin
                   {"mean", "sum", "min", "max", "std", "count"}

\* C11: a call whose spec resolves to no (column, function) pair, on a
\* table with the key columns, does not raise; its only statistic column is
\* count, every (product, day) with raw rows has exactly one output row and
\* that row's count is the number of raw rows of the group.
C11_CountFallback ==
    (agg.status # "none" /\ KeyColsPresent /\ ZeroPairs) =>
        /\ agg.status = "ok"
        /\ agg.cols = << <<"count", "">> >>
        /\ \A k \in 1..Len(raw.rows) :
              Cardinality({i \in 1..Len(agg.rows) :
                  /\ agg.rows[i].produto_id = raw.rows[k]["produto_id"]
                  /\ DayOf(agg.rows[i].data) = DayOf(raw.rows[k]["data"])}) = 1
        /\ \A i \in 1..Len(agg.rows) :
              LET r == agg.rows[i]
                  n == RawCount(r.produto_id, DayOf(r.data))
              IN  /\ DOMAIN r.stats = {<<"count", "">>}
                  /\ n >= 1 => r.stats[<<"count", "">>] = n
                  /\ n = 0 => agg.fill

C11_Witness ==
    /\ AggOk /\ KeyColsPresent /\ ZeroPairs
    /\ agg.aggregations # <<>>
    /\ Len(agg.rows) = 1
    /\ agg.rows[1].stats[<<"count", "">>] = 2

\* the raw table has exactly one row per (product, calendar day)
IdentityData ==
    /\ KeyColsPresent
    /\ \A i \in 1..Len(raw.rows) : \A j \in (i + 1)..Len(raw.rows) :
          \/ raw.rows[i]["produto_id"] # raw.rows[j]["produto_id"]
          \/ DayOf(raw.rows[i]["data"]) # DayOf(raw.rows[j]["data"])

CleanOk == clean.status = "ok"

\* C13: whatever the series and the options, a cleaning that returns gives
\* a series with no missing y and with at most as many rows as the input.
C13_NoMissingNoGrowth ==
    CleanOk =>
        /\ \A k \in 1..Len(clean.rows) : clean.rows[k].y # NaN
        /\ Len(clean.rows) <= Len(series.rows)

\* a missing value that no fill method can fill is dropped, and so is a
\* value left missing when filling is off
C13_Witness ==
    /\ CleanOk
    /\ \E i \in 1..Len(series.rows) : series.rows[i]["y"] = NaN
    /\ \E i \in 1..Len(clean.filled) : clean.filled[i] = NaN
    /\ clean.opts.remove_outliers
    /\ 0 < Len(clean.rows) /\ Len(clean.rows) < Len(series.rows)

NoDuplicateDates ==
    \A j \in 1..Len(clean.rows) : \A k \in (j + 1)..Len(clean.rows) :
        clean.rows[j].ds # clean.rows[k].ds

\* the first row of date d in the order of the input
FirstInInput(d) ==
    SetMin({i \in 1..Len(series.rows) : series.rows[i]["ds"] = d})

\* C14 as stated: no date occurs twice in the output, and the row retained
\* for a date is the first row of that date in the order of the input.
C14_FirstInInputAsStated ==
    CleanOk =>
        /\ NoDuplicateDates
        /\ \A k \in 1..Len(clean.rows) :
              clean.rows[k].idx = FirstInInput(clean.rows[k].ds)

\* positions, in the order the date sort left the rows in, of the rows of
\* date d whose y is present after the fill step
Survivors(d) ==
    {p \in 1..Len(clean.sorted) :
        /\ series.rows[clean.sorted[p]]["ds"] = d
        /\ clean.filled[p] # NaN}

\* C14 amended: no date occurs twice in the output; a date has an output
\* row exactly when one of its rows has a y after the fill step, and that
\* output row is the first such row in the order the date sort left the
\* rows in, with its y after the fill step.
C14_FirstSurvivor ==
    CleanOk =>
        /\ NoDuplicateDates
        /\ \A k \in 1..Len(clean.rows) :
              LET S == Survivors(clean.rows[k].ds)
              IN  /\ S # {}
                  /\ clean.rows[k].idx = clean.sorted[SetMin(S)]
                  /\ clean.rows[k].y = clean.filled[SetMin(S)]
        /\ \A i \in 1..Len(series.rows) :
              Survivors(series.rows[i]["ds"]) # {} =>
                  \E k \in 1..Len(clean.rows) :
                      clean.rows[k].ds = series.rows[i]["ds"]

\* the sort kept the input order of a date whose first row had no y and was
\* not filled; a later row of that date is retained
C14_Witness ==
    /\ CleanOk
    /\ \A p \in 1..Len(clean.sorted) : clean.sorted[p] = p
    /\ \E k \in 1..Len(clean.rows) :
          /\ clean.rows[k].idx # FirstInInput(clean.rows[k].ds)
          /\ series.rows[FirstInInput(clean.rows[k].ds)]["y"] = NaN

(***************************************************************************)
(* Properties of the feature builders                                      *)
(***************************************************************************)
\* rows p and q of the output are in the same group
SameGroup(p, q) == ~feat.group_by \/ feat.rows[p].g = feat.rows[q].g

\* the output holds the input rows, the rows of a group next to each other
\* and in ascending date order
GroupsDateOrdered ==
    /\ Len(feat.rows) = Len(tab)
    /\ {feat.rows[p].idx : p \in 1..Len(feat.rows)} = 1..Len(tab)
    /\ \A p \in 1..Len(feat.rows) :
          /\ feat.rows[p].g = tab[feat.rows[p].idx].g
          /\ feat.rows[p].ds = tab[feat.rows[p].idx].ds
          /\ feat.rows[p].v = tab[feat.rows[p].idx].v
    /\ \A p \in 1..Len(feat.rows) : \A q \in (p + 1)..Len(feat.rows) :
          SameGroup(p, q) =>
              /\ feat.rows[p].ds <= feat.rows[q].ds
              /\ \A m \in p..q : SameGroup(p, m)

\* C15: in the date-ordered rows of a group, the lag-k feature of a row is
\* the value k rows earlier when that row is of the same group, and is
\* missing otherwise: it is never another group's value and never filled.
C15_LagWithinGroup ==
    feat.op = "lag" =>
        /\ GroupsDateOrdered
        /\ \A p \in 1..Len(feat.rows) : \A k \in Range(feat.params) :
              feat.rows[p].f[k] =
                  IF p - k >= 1 /\ SameGroup(p, p - k)
                  THEN feat.rows[p - k].v ELSE NaN

\* the first row of the second group follows a row of the first group and
\* has no lag value, the next row of the group has one
C15_Witness ==
    /\ feat.op = "lag" /\ feat.group_by
    /\ Len(feat.rows) = 3
    /\ feat.rows[1].g # feat.rows[2].g
    /\ feat.rows[2].g = feat.rows[3].g
    /\ feat.rows[2].f[1] = NaN
    /\ feat.rows[3].f[1] = feat.rows[2].v
    /\ feat.rows[1].v # NaN

\* C16: every rolling feature of every row holds a value, std and the
\* first row of a group included.
C16_RollingDefined ==
    feat.op = "rolling" =>
        \A p \in 1..Len(feat.rows) : \A wa \in DOMAIN feat.rows[p].f :
            feat.rows[p].f[wa] # NaN

\* first row of the group of row p
GroupStart(p) == SetMin({q \in 1..p : \A m \in q..p : SameGroup(p, m)})

\* the values of the rows max(group start, p - w + 1) .. p
Trailing(p, w) ==
    LET first == IF p - w + 1 > GroupStart(p) THEN p - w + 1
                 ELSE GroupStart(p)
    IN  [k \in 1..(p - first + 1) |-> feat.rows[first + k - 1].v]

\* C17: the rolling mean, min and max of window w at row p are those of the
\* values of the rows max(group start, p - w + 1) .. p, all of its group
\* (statistics are in units of 1/FScale); at the first row of a group the
\* mean is the row's own value.
C17_RollingWindow ==
    feat.op = "rolling" =>
        /\ GroupsDateOrdered
        /\ \A p \in 1..Len(feat.rows) : \A w \in Range(feat.params) :
              LET xs == Trailing(p, w)
              IN  /\ feat.rows[p].f[<<w, "mean">>] * Len(xs)
                         = SumSeq(xs) * FScale
                  /\ feat.rows[p].f[<<w, "min">>]
                         = SetMin(Range(xs)) * FScale
                  /\ feat.rows[p].f[<<w, "max">>]
                         = SetMax(Range(xs)) * FScale
                  /\ p = GroupStart(p) =>
                         feat.rows[p].f[<<w, "mean">>]
                             = feat.rows[p].v * FScale

\* the first row of the second group follows a row of the first group with
\* another value, and its mean is its own value
C17_Witness ==
    /\ feat.op = "rolling" /\ feat.group_by
    /\ Len(feat.rows) = 3
    /\ feat.rows[1].g # feat.rows[2].g
    /\ feat.rows[2].g = feat.rows[3].g
    /\ feat.rows[1].v # feat.rows[2].v
    /\ feat.rows[2].v # feat.rows[3].v
    /\ feat.rows[2].f[<<2, "mean">>] = feat.rows[2].v * FScale
    /\ feat.rows[3].f[<<2, "mean">>] * 2
           = (feat.rows[2].v + feat.rows[3].v) * FScale

(***************************************************************************)
(* Properties of validation                                                *)
(***************************************************************************)
\* number of rows of the table, counted product by product
RowsOfTable ==
    LET RECURSIVE Upto(_)
        Upto(p) == IF p = 0 THEN 0 ELSE vdf.counts[p] + Upto(p - 1)
    IN  Upto(NumProducts)

\* C18: validation fails exactly when the table is empty, lacks a required
\* column or has fewer than 30 rows; when it passes, the products warned
\* about are exactly those with fewer than 30 rows, so none is warned about
\* when every product has at least 30.
C18_ValidationVerdict ==
    val.status # "none" =>
        /\ val.status = "ValueError" <=>
              \/ vdf.cols = {} \/ RowsOfTable = 0
              \/ \E c \in {"data", "produto_id", "estoque", "consumo"} :
                     c \notin vdf.cols
              \/ RowsOfTable < 30
        /\ val.status = "ok" <=> val.status # "ValueError"
        /\ val.status = "ok" =>
              val.warnings =
                  {p \in 1..NumProducts :
                      vdf.counts[p] > 0 /\ vdf.counts[p] < 30}
        /\ val.status = "ValueError" => val.warnings = {}

\* a table that passes with a warning for one product and none for a
\* product of exactly 30 rows
C18_Witness ==
    /\ val.status = "ok"
    /\ val.warnings = {1}
    /\ vdf.counts[1] = 29
    /\ vdf.counts[2] = 30

(***************************************************************************)
(* Properties of the alerts and of severity                                *)
(***************************************************************************)
\* C19: in every alert call, the rows handed to a channel that is invoked
\* are exactly the scored rows with is_anomaly and anomaly_score >= the
\* minimum score of the call (0.7 unless another is given); when there is
\* no such row no channel is invoked and every result is false.
C19_AlertRowSet ==
    alert.op \in {"send_anomaly_alerts", "send_anomaly_email",
                  "task_send_alerts"} =>
        LET wanted == {k \in 1..Len(scored) :
                          /\ scored[k].is_anomaly
                          /\ scored[k].anomaly_score >= alert.min_score}
        IN  /\ \A c \in alert.invoked : Range(alert.handed[c]) = wanted
            /\ wanted = {} =>
                  /\ alert.invoked = {}
                  /\ \A c \in DOMAIN alert.results : ~alert.results[c]

\* C20: every consumer gives a score the same severity: CRITICAL from 0.7,
\* HIGH from 0.6 to below 0.7, MEDIUM below.
C20_SeverityConsistent ==
    \A x \in alert.text \cup alert.html \cup alert.badges :
        x[2] = IF x[1] >= 70 THEN "CRITICA"
               ELSE IF x[1] >= 60 THEN "ALTA" ELSE "MEDIA"

(***************************************************************************)
(* Properties of the pipeline flow and of per-product forecasting          *)
(***************************************************************************)
\* the stage has been started / has returned in this run
Started(stage) == stage \in Range(flow.started)

Completed(stage) == stage \in Range(flow.completed)

\* C21: a channel whose transport fails is reported as false and the alert
\* task does not raise; after a failed Discord send the e-mail is still
\* sent when enabled, and the report stage still runs when enabled.
C21_TransportFailure ==
    Started("alerts") =>
        /\ Completed("alerts")
        /\ \A c \in DOMAIN flow.transport :
               ~flow.transport[c] => alert.results[c] = FALSE
        /\ ("discord" \in DOMAIN flow.transport /\ ~flow.transport["discord"])
               => /\ flow.opts.send_email => "email" \in alert.invoked
                  /\ (flow.opts.generate_pdf_report
                          /\ flow.status # "running") => Started("report")

\* the Discord send failed, the e-mail was sent and the report stage ran
C21_Witness ==
    /\ "discord" \in DOMAIN flow.transport
    /\ ~flow.transport["discord"]
    /\ "email" \in alert.invoked
    /\ Started("report")

StageIndex(stage) == CHOOSE k \in 1..Len(FlowStages) : FlowStages[k] = stage

\* the stage is part of this run: the alert and report stages are optional
InRun(stage) ==
    /\ stage = "alerts" => flow.opts.send_alerts
    /\ stage = "report" => flow.opts.generate_pdf_report

\* C23: the stages run in the order load, clean, features, aggregate,
\* forecast, anomalies, alerts, report: whenever a stage is started, no
\* stage of the run has failed, the stage was not started before, and every
\* earlier stage of the run has completed.
C23_StageOrder ==
    [][\A s \in Range(FlowStages) :
           (s \in Range(flow'.started) /\ ~Started(s)) =>
               /\ flow.status = "running"
               /\ InRun(s)
               /\ Len(flow'.started) = Len(flow.started) + 1
               /\ \A e \in Range(FlowStages) :
                      (StageIndex(e) < StageIndex(s) /\ InRun(e))
                          => Completed(e)
               /\ \A e \in Range(FlowStages) :
                      StageIndex(e) >= StageIndex(s) => ~Started(e)]_vars

\* a run in which all eight stages were started and completed
C23_Witness ==
    /\ flow.status = "completed"
    /\ flow.completed = FlowStages

(***************************************************************************)
(* Further properties of the anomaly engine and of model persistence       *)
(***************************************************************************)
\* C24: DetectAnomalies trains a model exactly when train_model is set:
\* with train_model = FALSE no fit is performed.
C24_TrainModelHonoured ==
    (res.op = "detect" /\ res.status = "ok") =>
        (res.train_model <=> "fit" \in Range(res.calls))

\* the rows of the last scored table that are flagged / valid and not
\* flagged
Flagged == {i \in 1..Len(res.table) : res.table[i].is_anomaly}

Unflagged ==
    {i \in 1..Len(res.table) :
        ~res.table[i].is_anomaly /\ res.table[i].anomaly_score # NaN}

\* the sum of the scores of the rows of I
RECURSIVE ScoreSum(_)
ScoreSum(I) ==
    IF I = {} THEN 0
    ELSE LET i == CHOOSE k \in I : TRUE
         IN  res.table[i].anomaly_score + ScoreSum(I \ {i})

\* C25: in a scored table every flagged row has a score strictly greater
\* than every valid row that is not flagged, so the mean score of the
\* flagged rows is strictly greater than the mean of the others when both
\* groups are non-empty.
C25_FlaggedScoreHigher ==
    (res.op \in {"score", "detect"} /\ res.status = "ok") =>
        /\ \A i \in Flagged, j \in Unflagged :
               res.table[i].anomaly_score > res.table[j].anomaly_score
        /\ (Flagged # {} /\ Unflagged # {}) =>
               ScoreSum(Flagged) * Cardinality(Unflagged) >
                   ScoreSum(Unflagged) * Cardinality(Flagged)

\* a scored table with a flagged row and a valid row that is not flagged
C25_Witness ==
    /\ res.op \in {"score", "detect"}
    /\ res.status = "ok"
    /\ Flagged # {}
    /\ Unflagged # {}

\* C26: a Load that follows a Save with the same file_path and returns a
\* model returns the model of that Save, the most recent one, whatever the
\* earlier Saves with other compress settings and models have left in the
\* directory.
C26_LoadReturnsLatest ==
    [][ (res.op = "save" /\ res'.op = "load" /\ res'.args[1] = res.args[1]
         /\ res'.status = "ok")
        => res'.model = res.model ]_vars

(***************************************************************************)
(* Properties of the stages of the flow                                    *)
(***************************************************************************)
\* the rows of consumo_df, by position, that the cleaner of the flow does
\* not mark as outliers
NotOutlier ==
    LET ys   == [k \in 1..Len(clean.sorted) |->
                    series.rows[clean.sorted[k]].y * YScale]
        mask == DetectOutliers(ys, "iqr")
    IN  {clean.sorted[k] : k \in {j \in 1..Len(clean.sorted) : ~mask[j]}}

StepsInOrder(ys, o) ==
    LET n       == Len(ys)
        zeroed  == [i \in 1..n |->
                       IF o.remove_negative /\ ys[i] # NaN /\ ys[i] < 0
                       THEN 0 ELSE ys[i]] \o <<>>
        lo      == o.min_value * YScale
        hi      == o.max_value * YScale
        clamped == [i \in 1..n |->
                       IF zeroed[i] = NaN THEN NaN
                       ELSE IF o.min_value # None /\ zeroed[i] < lo THEN lo
                       ELSE IF o.max_value # None /\ zeroed[i] > hi THEN hi
                       ELSE zeroed[i]] \o <<>>
        mask    == DetectOutliers(clamped, o.outlier_method) \o <<>>
        holed   == [i \in 1..n |->
                       IF o.remove_outliers /\ mask[i] THEN NaN
                       ELSE clamped[i]] \o <<>>
    IN  IF o.fill_missing /\ \E i \in 1..n : holed[i] = NaN
        THEN FillMissingValues(holed, o.fill_method) \o <<>>
        ELSE holed

\* C29: the cleaner zeroes negative values, then applies the envelope,
\* then makes the outliers of the clamped values missing, then fills the
\* missing values, then drops the rows still missing, and then keeps the
\* first remaining row of each date.
C29_StepOrder ==
    clean.status = "ok" =>
        LET n    == Len(clean.sorted)
            ys   == [k \in 1..n |->
                        IF series.rows[clean.sorted[k]]["y"] = NaN THEN NaN
                        ELSE series.rows[clean.sorted[k]]["y"] * YScale]
                    \o <<>>
            ds   == [k \in 1..n |-> series.rows[clean.sorted[k]]["ds"]]
            kept == {k \in 1..n :
                        /\ clean.filled[k] # NaN
                        /\ \A j \in 1..(k - 1) :
                               clean.filled[j] # NaN => ds[j] # ds[k]}
        IN  /\ clean.filled = StepsInOrder(ys, clean.opts)
            /\ Len(clean.rows) = Cardinality(kept)
            /\ Range(clean.rows) =
                   {[ds |-> ds[k], y |-> clean.filled[k],
                     idx |-> clean.sorted[k]] : k \in kept}

\* a call in which every step has changed something: a negative value
\* was zeroed, a value was clamped, a value was filled, and a row was
\* removed
C29_Witness ==
    /\ clean.status = "ok"
    /\ clean.opts.remove_negative /\ clean.opts.max_value # None
    /\ \E k \in 1..Len(clean.sorted) :
           /\ series.rows[clean.sorted[k]]["y"] = 0 - 4
           /\ clean.filled[k] = 0
    /\ \E k \in 1..Len(clean.sorted) :
           /\ series.rows[clean.sorted[k]]["y"] = 4
           /\ clean.filled[k] = clean.opts.max_value * YScale
    /\ \E k \in 1..Len(clean.sorted) :
           /\ series.rows[clean.sorted[k]]["y"] = NaN
           /\ clean.filled[k] # NaN
    /\ Len(clean.rows) < Len(clean.sorted)

====
